---- MODULE Spec2Model ----
(***************************************************************************)
(* Model of the movie-week server: the SQLite-backed MovieDatabase         *)
(* (server/src/db/database.ts) with its read caches, the movie routes      *)
(* (server/src/routes/movies.ts) and the WebSocketService broadcaster      *)
(* (server/src/services/websocket.ts).                                     *)
(*                                                                         *)
(* better-sqlite3 is synchronous and the route handlers contain no await,  *)
(* so one handler runs to completion on the Node event loop: each handler  *)
(* is one action.                                                          *)
(***************************************************************************)
EXTENDS Integers, Sequences, FiniteSets, TLC

\* ---------------------------------------------------------------------
\* Bounds of the model
\* ---------------------------------------------------------------------
MaxNow == 0          \* Date.now() takes the values 0..MaxNow
MaxWinnerId == 2     \* cap on the AUTOINCREMENT id of the winners table
MaxDbNow == 1        \* Date.now() takes the values 0..MaxDbNow under SpecDb
MaxOvershoot == 1    \* cap on votes above the threshold under SpecFault
MaxBurst == 3        \* vote requests in flight together on one id
MaxSockets == 2      \* browser tabs that can be connected
LruCapacity == 2     \* maxSize of the LRUCache under SpecLru

\* ---------------------------------------------------------------------
\* Program constants
\* ---------------------------------------------------------------------
WinThreshold == 10   \* database.ts:223  if (newVotes >= 10)
LruMaxSize == 50     \* database.ts:64   new LRUCache<...>(50)

\* ---------------------------------------------------------------------
\* Inputs
\* ---------------------------------------------------------------------
Ids == {"a", "b"}

\* Request bodies of POST /api/movies; "" stands for a missing/empty field.
\* The client submits what the catalog search returned for the id
\* (client/src/components/MovieSearch.tsx), so a first submission carries the
\* catalog's record of the id.
Catalog ==
  { [id |-> "a", title |-> "T1", year |-> "2000", poster |-> "p1"],
    [id |-> "b", title |-> "T2", year |-> "2001", poster |-> "p2"] }

\* Bodies that differ from the catalog's record: other fields for an id, and
\* a body whose poster is missing.  They are sent for ids already stored.
Resubmitted ==
  { [id |-> "a", title |-> "T9", year |-> "2009", poster |-> "p9"],
    [id |-> "b", title |-> "T2", year |-> "2001", poster |-> ""] }

\* Bodies that fail the validation of POST /: a catalog record with one
\* field missing or empty, or with all four.  !x is true of undefined and
\* of "" alike (routes/movies.ts:37), so both are written "".
InvalidBodies ==
  UNION { { [c EXCEPT !.id = ""], [c EXCEPT !.title = ""],
            [c EXCEPT !.year = ""], [c EXCEPT !.poster = ""],
            [id |-> "", title |-> "", year |-> "", poster |-> ""] } :
          c \in Catalog }

Bodies == Catalog \cup Resubmitted

\* Browser tabs that hold a socket.io connection to the server
Sockets == 1..MaxSockets

VARIABLES
  movies,             \* rows of table movies, in rowid order
  winners,            \* rows of table winners, in rowid order
  winnerSeq,          \* last AUTOINCREMENT id handed out for winners
  activeMoviesCache,  \* <<>> (null) or <<list>>
  winnersCache,       \* <<>> (null) or <<list>>
  movieByIdCache,     \* LRU map: sequence of [key, val], oldest first
  now,                \* Date.now()
  io,                 \* wsService.io !== null
  emitted,            \* events emitted by the last handler, in order
  response,           \* result of the last handler
  clients,            \* sockets connected to the socket.io server
  delivered,          \* per socket, the events sent to it by the last step
  app                 \* the App component of one browser tab

vars == <<movies, winners, winnerSeq, activeMoviesCache, winnersCache,
          movieByIdCache, now, io, emitted, response, clients, delivered,
          app>>

\* ---------------------------------------------------------------------
\* Sequence helpers
\* ---------------------------------------------------------------------
InsertAt(s, i, x) == SubSeq(s, 1, i - 1) \o <<x>> \o SubSeq(s, i, Len(s))

\* ---------------------------------------------------------------------
\* LRUCache  (database.ts:7-44)
\* ---------------------------------------------------------------------
LruHas(c, k) == \E i \in 1..Len(c) : c[i].key = k

LruIndex(c, k) == CHOOSE i \in 1..Len(c) : c[i].key = k

LruDelete(c, k) == SelectSeq(c, LAMBDA e : e.key # k)

\* get: a hit moves the entry to the end; the value may itself be undefined
LruGet(c, k) ==
  IF ~LruHas(c, k) THEN [cache |-> c, val |-> <<>>]
  ELSE LET v == c[LruIndex(c, k)].val
       IN [cache |-> Append(LruDelete(c, k), [key |-> k, val |-> v]),
           val |-> v]

\* Mutation of LruSetMax: on overflow the entry used last before the call
\* is dropped
LruSetMaxDropsNewest(c, k, v, max) ==
  LET c0 == LruDelete(c, k)
      c1 == Append(c0, [key |-> k, val |-> v])
  IN IF Len(c1) > max
     THEN Append(SubSeq(c0, 1, Len(c0) - 1), [key |-> k, val |-> v])
     ELSE c1

\* set with the constructor's maxSize as a parameter (database.ts:24-35)
LruSetMax(c, k, v, max) ==
  LET c1 == Append(LruDelete(c, k), [key |-> k, val |-> v])
  IN IF Len(c1) > max THEN Tail(c1) ELSE c1

LruSet(c, k, v) == LruSetMax(c, k, v, LruMaxSize)

LruClear(c) == <<>>

\* ---------------------------------------------------------------------
\* SQL statements  (database.ts:86-122, 299-311)
\* A table is the sequence of its rows in rowid order: an INSERT appends
\* (rowid = max + 1), a DELETE removes, an UPDATE rewrites in place.
\* ---------------------------------------------------------------------

\* Mutation of SqlAddMovie: the row is stored with the submission counted
\* as a first vote
SqlAddMovieOneVote(m, movie, addedAt) ==
  Append(m, [id |-> movie.id, title |-> movie.title, year |-> movie.year,
             poster |-> movie.poster, votes |-> 1, addedAt |-> addedAt,
             status |-> "active"])

\* INSERT INTO movies (...) VALUES (?, ?, ?, ?, 0, ?, 'active')
SqlAddMovie(m, movie, addedAt) ==
  Append(m, [id |-> movie.id, title |-> movie.title, year |-> movie.year,
             poster |-> movie.poster, votes |-> 0, addedAt |-> addedAt,
             status |-> "active"])

\* SELECT * FROM movies WHERE id = ?      (<<>> is undefined)
SqlGetMovieById(m, id) ==
  SelectSeq(m, LAMBDA r : r.id = id)

\* Mutation of MovieBefore: ties on votes go to the row added last
MovieBeforeNewestFirst(x, y) ==
  \/ x.votes > y.votes
  \/ x.votes = y.votes /\ x.addedAt > y.addedAt

\* ORDER BY votes DESC, addedAt ASC
MovieBefore(x, y) ==
  \/ x.votes > y.votes
  \/ x.votes = y.votes /\ x.addedAt < y.addedAt

\* Mutation of WinnerBefore: ORDER BY wonAt ASC
WinnerBeforeOldestFirst(x, y) == x.wonAt < y.wonAt

\* ORDER BY wonAt DESC
WinnerBefore(x, y) == x.wonAt > y.wonAt

\* SQLite's sorter and its index scans both return rows that compare equal
\* on the ORDER BY terms in rowid order: the sort is stable on the table.
RECURSIVE SortMovies(_)
SortMovies(s) ==
  IF s = <<>> THEN <<>>
  ELSE LET front == SortMovies(SubSeq(s, 1, Len(s) - 1))
           x == s[Len(s)]
           later == {i \in 1..Len(front) : MovieBefore(x, front[i])}
           pos == IF later = {} THEN Len(front) + 1
                  ELSE CHOOSE i \in later : \A j \in later : i <= j
       IN InsertAt(front, pos, x)

RECURSIVE SortWinners(_)
SortWinners(s) ==
  IF s = <<>> THEN <<>>
  ELSE LET front == SortWinners(SubSeq(s, 1, Len(s) - 1))
           x == s[Len(s)]
           later == {i \in 1..Len(front) : WinnerBefore(x, front[i])}
           pos == IF later = {} THEN Len(front) + 1
                  ELSE CHOOSE i \in later : \A j \in later : i <= j
       IN InsertAt(front, pos, x)

\* SELECT * FROM movies WHERE status = 'active' ORDER BY votes DESC, addedAt ASC
SqlGetAllActiveMovies(m) ==
  SortMovies(SelectSeq(m, LAMBDA r : r.status = "active"))

\* Mutation of SqlUpdateVotes: the statement has no WHERE clause
SqlUpdateVotesAllRows(m, newVotes, id) ==
  [i \in 1..Len(m) |-> [m[i] EXCEPT !.votes = newVotes]]

\* Mutation of SqlUpdateVotes: the write is lost
SqlUpdateVotesLost(m, newVotes, id) == m

\* UPDATE movies SET votes = ? WHERE id = ?
SqlUpdateVotes(m, newVotes, id) ==
  [i \in 1..Len(m) |->
     IF m[i].id = id THEN [m[i] EXCEPT !.votes = newVotes] ELSE m[i]]

\* Mutation of SqlUpdateMovieStatus: the statement counts the vote and
\* leaves the status as it is
SqlUpdateMovieStatusVotesOnly(m, id) ==
  [i \in 1..Len(m) |->
     IF m[i].id = id THEN [m[i] EXCEPT !.votes = m[i].votes + 1] ELSE m[i]]

\* UPDATE movies SET status = 'winner', votes = votes + 1 WHERE id = ?
SqlUpdateMovieStatus(m, id) ==
  [i \in 1..Len(m) |->
     IF m[i].id = id
     THEN [m[i] EXCEPT !.status = "winner", !.votes = m[i].votes + 1]
     ELSE m[i]]

\* INSERT INTO winners (movieId, title, year, poster, finalVotes, wonAt)
\* id INTEGER PRIMARY KEY AUTOINCREMENT: one more than the largest id ever used
SqlAddWinner(w, seq, movieId, title, year, poster, finalVotes, wonAt) ==
  Append(w, [id |-> seq + 1, movieId |-> movieId, title |-> title,
             year |-> year, poster |-> poster, finalVotes |-> finalVotes,
             wonAt |-> wonAt])

\* SELECT * FROM winners ORDER BY wonAt DESC
SqlGetAllWinners(w) == SortWinners(w)

\* Mutation of SqlDeleteMovie: the statement has no status condition
SqlDeleteMovieAnyStatus(m, id) ==
  SelectSeq(m, LAMBDA r : r.id # id)

\* Mutation of SqlDeleteMovie: a row that has votes is not deleted
SqlDeleteMovieUnvoted(m, id) ==
  SelectSeq(m, LAMBDA r : ~(r.id = id /\ r.status = "active" /\ r.votes = 0))

\* DELETE FROM movies WHERE id = ? AND status = 'active'
SqlDeleteMovie(m, id) ==
  SelectSeq(m, LAMBDA r : ~(r.id = id /\ r.status = "active"))

\* Mutation of SqlDeleteAllMovies: the rows of the winners are spared
SqlDeleteAllMoviesActive(m) ==
  SelectSeq(m, LAMBDA r : r.status # "active")

\* DELETE FROM movies
SqlDeleteAllMovies(m) == <<>>

\* DELETE FROM winners
SqlDeleteAllWinners(w) == <<>>

\* ---------------------------------------------------------------------
\* MovieDatabase  (database.ts:46-321)
\* A method takes the database object d (tables and caches) and returns
\* the object after the call as .db and the returned value as .ret
\* (<<>> is null/undefined, <<x>> is the value x).
\* ---------------------------------------------------------------------
DbOf(m, w, seq, ac, wc, bc) ==
  [movies |-> m, winners |-> w, winnerSeq |-> seq,
   activeMoviesCache |-> ac, winnersCache |-> wc, movieByIdCache |-> bc]

\* database.ts:160-163
invalidateCache(d) ==
  [d EXCEPT !.activeMoviesCache = <<>>,
            !.movieByIdCache = LruClear(d.movieByIdCache)]

\* database.ts:166-181
addMovie(d, movie, t) ==
  LET d1 == [d EXCEPT !.movies = SqlAddMovie(d.movies, movie, t)]
      newMovie == [id |-> movie.id, title |-> movie.title,
                   year |-> movie.year, poster |-> movie.poster,
                   votes |-> 0, addedAt |-> t, status |-> "active"]
  IN [db |-> invalidateCache(d1), ret |-> <<newMovie>>]

\* database.ts:183-197
getMovieById(d, id) ==
  LET got == LruGet(d.movieByIdCache, id)
  IN IF got.val # <<>>
     THEN [db |-> [d EXCEPT !.movieByIdCache = got.cache], ret |-> got.val]
     ELSE LET movie == SqlGetMovieById(d.movies, id)
          IN [db |-> [d EXCEPT !.movieByIdCache =
                                  LruSet(got.cache, id, movie)],
              ret |-> movie]

\* database.ts:199-212
getAllActiveMovies(d) ==
  IF d.activeMoviesCache # <<>>
  THEN [db |-> d, ret |-> d.activeMoviesCache[1]]
  ELSE LET ms == SqlGetAllActiveMovies(d.movies)
       IN [db |-> [d EXCEPT !.activeMoviesCache = <<ms>>], ret |-> ms]

\* database.ts:266-279
getAllWinners(d) ==
  IF d.winnersCache # <<>>
  THEN [db |-> d, ret |-> d.winnersCache[1]]
  ELSE LET ws == SqlGetAllWinners(d.winners)
       IN [db |-> [d EXCEPT !.winnersCache = <<ws>>], ret |-> ws]

\* Mutation of declareWinner: the returned movie keeps the count read
\* before the vote
declareWinnerStaleCount(d, id, t) ==
  LET r == getMovieById(d, id)
      movie == r.ret[1]
      d1 == [r.db EXCEPT !.movies = SqlUpdateMovieStatus(r.db.movies, id)]
      d2 == [d1 EXCEPT
               !.winners = SqlAddWinner(d1.winners, d1.winnerSeq, movie.id,
                                        movie.title, movie.year, movie.poster,
                                        movie.votes + 1, t),
               !.winnerSeq = d1.winnerSeq + 1]
      winnerMovie == [movie EXCEPT !.status = "winner"]
  IN [db |-> [invalidateCache(d2) EXCEPT !.winnersCache = <<>>],
      ret |-> <<winnerMovie>>]

\* database.ts:237-263  (the throw of line 240 needs a missing row: the
\* caller has just read the row, so it is not reachable)
declareWinner(d, id, t) ==
  LET r == getMovieById(d, id)
      movie == r.ret[1]
      d1 == [r.db EXCEPT !.movies = SqlUpdateMovieStatus(r.db.movies, id)]
      d2 == [d1 EXCEPT
               !.winners = SqlAddWinner(d1.winners, d1.winnerSeq, movie.id,
                                        movie.title, movie.year, movie.poster,
                                        movie.votes + 1, t),
               !.winnerSeq = d1.winnerSeq + 1]
      winnerMovie == [movie EXCEPT !.votes = movie.votes + 1,
                                   !.status = "winner"]
  IN [db |-> [invalidateCache(d2) EXCEPT !.winnersCache = <<>>],
      ret |-> <<winnerMovie>>]

\* Mutation of incrementVote: the threshold test is newVotes > 10
incrementVoteStrict(d, id, t) ==
  LET r == getMovieById(d, id)
  IN IF r.ret = <<>> \/ r.ret[1].status # "active"
     THEN [db |-> r.db, ret |-> <<>>]
     ELSE LET movie == r.ret[1]
              newVotes == movie.votes + 1
          IN IF newVotes > WinThreshold
             THEN declareWinner(r.db, id, t)
             ELSE LET d1 == [r.db EXCEPT !.movies =
                                SqlUpdateVotes(r.db.movies, newVotes, id)]
                  IN [db |-> invalidateCache(d1),
                      ret |-> <<[movie EXCEPT !.votes = newVotes]>>]

\* Mutation of incrementVote: only a missing row is refused, the status
\* is not looked at
incrementVoteAnyStatus(d, id, t) ==
  LET r == getMovieById(d, id)
  IN IF r.ret = <<>>
     THEN [db |-> r.db, ret |-> <<>>]
     ELSE LET movie == r.ret[1]
              newVotes == movie.votes + 1
          IN IF newVotes >= WinThreshold
             THEN declareWinner(r.db, id, t)
             ELSE LET d1 == [r.db EXCEPT !.movies =
                                SqlUpdateVotes(r.db.movies, newVotes, id)]
                  IN [db |-> invalidateCache(d1),
                      ret |-> <<[movie EXCEPT !.votes = newVotes]>>]

\* database.ts:214-235
incrementVote(d, id, t) ==
  LET r == getMovieById(d, id)
  IN IF r.ret = <<>> \/ r.ret[1].status # "active"
     THEN [db |-> r.db, ret |-> <<>>]
     ELSE LET movie == r.ret[1]
              newVotes == movie.votes + 1
          IN IF newVotes >= WinThreshold
             THEN declareWinner(r.db, id, t)
             ELSE LET d1 == [r.db EXCEPT !.movies =
                                SqlUpdateVotes(r.db.movies, newVotes, id)]
                  IN [db |-> invalidateCache(d1),
                      ret |-> <<[movie EXCEPT !.votes = newVotes]>>]

\* Mutation of deleteMovie: the row is deleted and the caches are kept
deleteMovieKeepCache(d, id) ==
  LET m1 == SqlDeleteMovie(d.movies, id)
  IN [db |-> [d EXCEPT !.movies = m1],
      ret |-> <<Len(d.movies) > Len(m1)>>]

\* database.ts:281-296  (ret is <<TRUE>> or <<FALSE>>)
deleteMovie(d, id) ==
  LET m1 == SqlDeleteMovie(d.movies, id)
      changes == Len(d.movies) - Len(m1)
      d1 == [d EXCEPT !.movies = m1]
  IN [db |-> IF changes > 0 THEN invalidateCache(d1) ELSE d1,
      ret |-> <<changes > 0>>]

\* Mutation of clearAllMovies: the rows are deleted and the caches are kept
clearAllMoviesKeepCache(d) ==
  [d EXCEPT !.movies = SqlDeleteAllMovies(d.movies)]

\* database.ts:299-304
clearAllMovies(d) ==
  invalidateCache([d EXCEPT !.movies = SqlDeleteAllMovies(d.movies)])

\* Mutation of clearAllWinners: the rows of the winners are released too
clearAllWinnersReleases(d) ==
  [d EXCEPT !.winners = SqlDeleteAllWinners(d.winners),
            !.winnersCache = <<>>,
            !.movies = [i \in 1..Len(d.movies) |->
                          [d.movies[i] EXCEPT !.status = "active"]]]

\* Mutation of clearAllWinners: the rows are deleted and winnersCache is kept
clearAllWinnersKeepCache(d) ==
  [d EXCEPT !.winners = SqlDeleteAllWinners(d.winners)]

\* database.ts:306-311
clearAllWinners(d) ==
  [d EXCEPT !.winners = SqlDeleteAllWinners(d.winners), !.winnersCache = <<>>]

\* ---------------------------------------------------------------------
\* WebSocketService  (websocket.ts:5-106)
\* Each broadcast returns the list of emitted events extended by its own
\* emit; with io === null it warns and returns.
\* ---------------------------------------------------------------------
\* Mutation of Emit: the event is sent twice
EmitTwice(em, ioSet, event, payload) ==
  IF ~ioSet THEN em
  ELSE em \o << [event |-> event, payload |-> payload],
                [event |-> event, payload |-> payload] >>

Emit(em, ioSet, event, payload) ==
  IF ~ioSet THEN em ELSE Append(em, [event |-> event, payload |-> payload])

\* this.io.emit(event, payload) (websocket.ts:49, 61, 73, 85, 97): the
\* Server sends the event once to every socket connected at the call; no
\* room, no socket.emit, no volatile flag is used
Deliver(em, connected) ==
  [c \in Sockets |-> IF c \in connected THEN em ELSE <<>>]

\* websocket.ts:44-50
sendInitialMovies(em, ioSet, ms) == Emit(em, ioSet, "movies:initial", ms)

\* websocket.ts:55-62
broadcastMovieAdded(em, ioSet, movie) == Emit(em, ioSet, "movie:added", <<movie>>)

\* websocket.ts:67-74
broadcastMovieVoted(em, ioSet, movie) == Emit(em, ioSet, "movie:voted", <<movie>>)

\* websocket.ts:79-86
broadcastMovieWinner(em, ioSet, winner) == Emit(em, ioSet, "movie:winner", <<winner>>)

\* websocket.ts:91-98
broadcastWinnersUpdated(em, ioSet, ws) == Emit(em, ioSet, "winners:updated", ws)

\* ---------------------------------------------------------------------
\* Route handlers  (routes/movies.ts; the same handlers are registered in
\* server.ts:73-282).  A handler returns the database object after the
\* request (.db), the events it emitted (.em) and the HTTP response (.resp).
\* The catch blocks (status 500) need a throwing statement: none of the
\* synchronous calls below throws on the states reached here.
\* ---------------------------------------------------------------------
Resp(op, id, status, data, isWinner, text) ==
  [op |-> op, id |-> id, status |-> status, data |-> data,
   isWinner |-> isWinner, text |-> text]

\* routes/movies.ts:9-30   GET /
getMoviesHandler(d, ioSet) ==
  LET r == getAllActiveMovies(d)
  IN [db |-> r.db,
      em |-> IF ioSet THEN sendInitialMovies(<<>>, ioSet, r.ret) ELSE <<>>,
      resp |-> Resp("list", "", 200, r.ret, FALSE, "")]

\* server.ts:219-233   GET /api/winners
getWinnersHandler(d, ioSet) ==
  LET r == getAllWinners(d)
  IN [db |-> r.db, em |-> <<>>,
      resp |-> Resp("winners", "", 200, r.ret, FALSE, "")]

\* Mutation of voteBroadcast: winners:updated is sent before movie:winner
voteBroadcastLedgerFirst(d, ioSet, movie) ==
  IF movie.status = "winner"
  THEN LET r == getAllWinners(d)
           ws == r.ret
       IN [db |-> r.db,
           em |-> IF ws # <<>>
                  THEN broadcastMovieWinner(
                         broadcastWinnersUpdated(<<>>, ioSet, ws), ioSet, ws[1])
                  ELSE <<>>]
  ELSE [db |-> d, em |-> broadcastMovieVoted(<<>>, ioSet, movie)]

\* routes/movies.ts:59-75 and 123-139: the events after an accepted vote
voteBroadcast(d, ioSet, movie) ==
  IF movie.status = "winner"
  THEN LET r == getAllWinners(d)
           ws == r.ret
       IN [db |-> r.db,
           em |-> IF ws # <<>>
                  THEN broadcastWinnersUpdated(
                         broadcastMovieWinner(<<>>, ioSet, ws[1]), ioSet, ws)
                  ELSE <<>>]
  ELSE [db |-> d, em |-> broadcastMovieVoted(<<>>, ioSet, movie)]

\* Mutation of impliedVote: the re-submission always broadcasts
\* movie:voted, also when the vote promotes
impliedVoteAlwaysVoted(d, body, t, ioSet) ==
  LET up == incrementVote(d, body.id, t)
  IN IF up.ret = <<>>
     THEN [db |-> up.db, em |-> <<>>,
           resp |-> Resp("add", body.id, 404, <<>>, FALSE,
                         "Failed to vote for existing movie")]
     ELSE [db |-> up.db,
           em |-> broadcastMovieVoted(<<>>, ioSet, up.ret[1]),
           resp |-> Resp("add", body.id, 200, up.ret,
                         up.ret[1].status = "winner",
                         "Movie already existed, vote incremented")]

\* routes/movies.ts:47-82   POST /, the id is stored and active
impliedVote(d, body, t, ioSet) ==
  LET up == incrementVote(d, body.id, t)
  IN IF up.ret = <<>>
     THEN [db |-> up.db, em |-> <<>>,
           resp |-> Resp("add", body.id, 404, <<>>, FALSE,
                         "Failed to vote for existing movie")]
     ELSE LET b == voteBroadcast(up.db, ioSet, up.ret[1])
          IN [db |-> b.db, em |-> b.em,
              resp |-> Resp("add", body.id, 200, up.ret,
                            up.ret[1].status = "winner",
                            "Movie already existed, vote incremented")]

\* Mutation of pastWinner: a stored winner is treated like an unknown id
pastWinnerCreates(d, body, t, ioSet) ==
  LET ad == addMovie(d, body, t)
  IN [db |-> ad.db,
      em |-> broadcastMovieAdded(<<>>, ioSet, ad.ret[1]),
      resp |-> Resp("add", body.id, 201, ad.ret, FALSE, "")]

\* routes/movies.ts:83-90   POST /, the id is stored and has won
pastWinner(d, body, t, ioSet) ==
  [db |-> d, em |-> <<>>,
   resp |-> Resp("add", body.id, 409, <<>>, FALSE,
                 "This movie has already won and cannot be added again")]

\* routes/movies.ts:93-101   POST /, the id is not stored
createMovie(d, body, t, ioSet) ==
  LET ad == addMovie(d, body, t)
  IN [db |-> ad.db,
      em |-> broadcastMovieAdded(<<>>, ioSet, ad.ret[1]),
      resp |-> Resp("add", body.id, 201, ad.ret, FALSE, "")]

\* Mutation of postMovieHandler: the row is inserted without looking the
\* id up first
postMovieHandlerInsertsBlindly(d, body, t, ioSet) ==
  IF body.id = "" \/ body.title = "" \/ body.year = "" \/ body.poster = ""
  THEN [db |-> d, em |-> <<>>,
        resp |-> Resp("add", body.id, 400, <<>>, FALSE,
                      "Missing required fields: id, title, year, poster")]
  ELSE createMovie(d, body, t, ioSet)

\* Mutation of postMovieHandler: the stored row is looked up before the
\* body is validated
postMovieHandlerLooksUpFirst(d, body, t, ioSet) ==
  LET ex == getMovieById(d, body.id)
  IN IF body.id = "" \/ body.title = "" \/ body.year = "" \/ body.poster = ""
     THEN [db |-> ex.db, em |-> <<>>,
           resp |-> Resp("add", body.id, 400, <<>>, FALSE,
                         "Missing required fields: id, title, year, poster")]
     ELSE IF ex.ret # <<>> /\ ex.ret[1].status = "active"
     THEN impliedVote(ex.db, body, t, ioSet)
     ELSE IF ex.ret # <<>> /\ ex.ret[1].status = "winner"
     THEN pastWinner(ex.db, body, t, ioSet)
     ELSE createMovie(ex.db, body, t, ioSet)

\* routes/movies.ts:33-108   POST /
postMovieHandler(d, body, t, ioSet) ==
  IF body.id = "" \/ body.title = "" \/ body.year = "" \/ body.poster = ""
  THEN [db |-> d, em |-> <<>>,
        resp |-> Resp("add", body.id, 400, <<>>, FALSE,
                      "Missing required fields: id, title, year, poster")]
  ELSE
    LET ex == getMovieById(d, body.id)
    IN IF ex.ret # <<>> /\ ex.ret[1].status = "active"
       THEN impliedVote(ex.db, body, t, ioSet)
       ELSE IF ex.ret # <<>> /\ ex.ret[1].status = "winner"
       THEN pastWinner(ex.db, body, t, ioSet)
       ELSE createMovie(ex.db, body, t, ioSet)

\* routes/movies.ts:111-152   POST /:id/vote
voteHandler(d, id, t, ioSet) ==
  LET up == incrementVote(d, id, t)
  IN IF up.ret = <<>>
     THEN [db |-> up.db, em |-> <<>>,
           resp |-> Resp("vote", id, 404, <<>>, FALSE,
                         "Movie not found or already won")]
     ELSE LET b == voteBroadcast(up.db, ioSet, up.ret[1])
          IN [db |-> b.db, em |-> b.em,
              resp |-> Resp("vote", id, 200, up.ret,
                            up.ret[1].status = "winner", "")]

\* k requests POST /:id/vote that are in flight together.  The handler is
\* synchronous from its first line to res.json (routes/movies.ts:111-152
\* has no await, better-sqlite3 blocks), so Node runs the k handlers one
\* after the other, in some order; the requests are equal, so every order
\* is this one.  .st lists the statuses answered, in the order served.
RECURSIVE VoteBurst(_, _, _, _, _)
VoteBurst(d, id, t, ioSet, k) ==
  IF k = 0 THEN [db |-> d, st |-> <<>>]
  ELSE LET p == VoteBurst(d, id, t, ioSet, k - 1)
           h == voteHandler(p.db, id, t, ioSet)
       IN [db |-> h.db, st |-> Append(p.st, h.resp.status)]

\* routes/movies.ts:155-182   DELETE /:id
deleteHandler(d, id) ==
  LET r == deleteMovie(d, id)
  IN IF ~r.ret[1]
     THEN [db |-> r.db, em |-> <<>>,
           resp |-> Resp("delete", id, 404, <<>>, FALSE,
                         "Movie not found or already completed")]
     ELSE [db |-> r.db, em |-> <<>>,
           resp |-> Resp("delete", id, 200, <<>>, FALSE,
                         "Movie deleted successfully")]

\* The router (routes/movies.ts:33, 111, 155): the request <<op, body>> is
\* handed to the handler of op; the vote and delete routes read the id
\* from the path, written here as body.id
Route(d, req, t, ioSet) ==
  IF req[1] = "add" THEN postMovieHandler(d, req[2], t, ioSet)
  ELSE IF req[1] = "vote" THEN voteHandler(d, req[2].id, t, ioSet)
  ELSE deleteHandler(d, req[2].id)

\* The add, vote and delete requests that name id
RequestsOn(id) ==
  {<<"add", body>> : body \in {b \in Bodies : b.id = id}}
    \cup {<<op, CHOOSE c \in Catalog : c.id = id>> : op \in {"vote", "delete"}}

\* Mutation of clearHandler: the bulk clear of the ballot empties the
\* ledger too
clearHandlerWipesLedger(d) ==
  [db |-> clearAllWinners(clearAllMovies(d)), em |-> <<>>,
   resp |-> Resp("clear", "", 200, <<>>, FALSE, "All active movies cleared")]

\* routes/movies.ts:185-201   DELETE /
clearHandler(d) ==
  [db |-> clearAllMovies(d), em |-> <<>>,
   resp |-> Resp("clear", "", 200, <<>>, FALSE, "All active movies cleared")]

\* ---------------------------------------------------------------------
\* The same calls when one step throws.  fail names the step: a statement
\* whose run() throws (a failed statement changes no row: SQLite rolls the
\* statement back), or an event whose io.emit throws; "none" is the run
\* without failure.  No method opens a transaction and none catches, so
\* what ran before the throw stays, and what comes after it in the method
\* is skipped.  .threw tells that the call ended by the exception.
\* ---------------------------------------------------------------------
StorageFaults == {"addMovie", "updateVotes", "updateMovieStatus", "addWinner"}

EmitFaults == {"movie:added", "movie:voted", "movie:winner", "winners:updated"}

Faults == {"none"} \cup StorageFaults \cup EmitFaults

\* database.ts:166-181 with a throwing INSERT
addMovieF(d, movie, t, fail) ==
  IF fail = "addMovie"
  THEN [db |-> d, ret |-> <<>>, threw |-> TRUE]
  ELSE [db |-> addMovie(d, movie, t).db, ret |-> addMovie(d, movie, t).ret,
        threw |-> FALSE]

\* database.ts:237-263 with a throwing UPDATE or INSERT
declareWinnerF(d, id, t, fail) ==
  LET r == getMovieById(d, id)
      d1 == [r.db EXCEPT !.movies = SqlUpdateMovieStatus(r.db.movies, id)]
  IN IF fail = "updateMovieStatus"
     THEN [db |-> r.db, ret |-> <<>>, threw |-> TRUE]
     ELSE IF fail = "addWinner"
     THEN [db |-> d1, ret |-> <<>>, threw |-> TRUE]
     ELSE [db |-> declareWinner(d, id, t).db,
           ret |-> declareWinner(d, id, t).ret, threw |-> FALSE]

\* database.ts:214-235 with a throwing UPDATE
incrementVoteF(d, id, t, fail) ==
  LET r == getMovieById(d, id)
  IN IF r.ret = <<>> \/ r.ret[1].status # "active"
     THEN [db |-> r.db, ret |-> <<>>, threw |-> FALSE]
     ELSE IF r.ret[1].votes + 1 >= WinThreshold
     THEN declareWinnerF(r.db, id, t, fail)
     ELSE IF fail = "updateVotes"
     THEN [db |-> r.db, ret |-> <<>>, threw |-> TRUE]
     ELSE [db |-> incrementVote(d, id, t).db,
           ret |-> incrementVote(d, id, t).ret, threw |-> FALSE]

\* websocket.ts:55-98 with a throwing this.io.emit
EmitF(b, ioSet, event, payload, fail) ==
  IF b.threw \/ ~ioSet THEN b
  ELSE IF fail = event THEN [b EXCEPT !.threw = TRUE]
  ELSE [b EXCEPT !.em = Append(b.em, [event |-> event, payload |-> payload])]

\* routes/movies.ts:59-75 and 123-139
voteBroadcastF(d, ioSet, movie, fail) ==
  LET b0 == [db |-> d, em |-> <<>>, threw |-> FALSE]
  IN IF movie.status = "winner"
     THEN LET r == getAllWinners(d)
              ws == r.ret
              b1 == [b0 EXCEPT !.db = r.db]
          IN IF ws # <<>>
             THEN EmitF(EmitF(b1, ioSet, "movie:winner", <<ws[1]>>, fail),
                        ioSet, "winners:updated", ws, fail)
             ELSE b1
     ELSE EmitF(b0, ioSet, "movie:voted", <<movie>>, fail)

\* routes/movies.ts:102-107, 146-151: the catch block answers 500 with the
\* message of the error
Caught(op, id, d, em, fail) ==
  [db |-> d, em |-> em,
   resp |-> Resp(op, id, 500, <<>>, FALSE,
                 IF fail \in StorageFaults THEN "SqliteError"
                 ELSE "emit failed")]

\* const x = call(): the value of the call, computed once
The(S) == CHOOSE x \in S : TRUE

\* routes/movies.ts:50-82 and 116-152: what the route does once
\* db.incrementVote(id) has returned or thrown (up)
answerVoteF(op, up, id, ioSet, fail, missing, text) ==
  IF up.threw THEN Caught(op, id, up.db, <<>>, fail)
  ELSE IF up.ret = <<>>
  THEN [db |-> up.db, em |-> <<>>,
        resp |-> Resp(op, id, 404, <<>>, FALSE, missing)]
  ELSE LET b == voteBroadcastF(up.db, ioSet, up.ret[1], fail)
       IN IF b.threw THEN Caught(op, id, b.db, b.em, fail)
          ELSE [db |-> b.db, em |-> b.em,
                resp |-> Resp(op, id, 200, up.ret,
                              up.ret[1].status = "winner", text)]

\* routes/movies.ts:47-82 and 111-152: a vote, by either route
castVoteF(op, d, id, t, ioSet, fail, missing, text) ==
  The({ answerVoteF(op, up, id, ioSet, fail, missing, text) :
        up \in {incrementVoteF(d, id, t, fail)} })

\* routes/movies.ts:111-152   POST /:id/vote
voteHandlerF(d, id, t, ioSet, fail) ==
  castVoteF("vote", d, id, t, ioSet, fail,
            "Movie not found or already won", "")

\* routes/movies.ts:93-107   POST /, the id is not stored
createMovieF(d, body, t, ioSet, fail) ==
  LET ad == addMovieF(d, body, t, fail)
  IN IF ad.threw THEN Caught("add", body.id, ad.db, <<>>, fail)
     ELSE LET b == EmitF([db |-> ad.db, em |-> <<>>, threw |-> FALSE],
                         ioSet, "movie:added", ad.ret, fail)
          IN IF b.threw THEN Caught("add", body.id, b.db, b.em, fail)
             ELSE [db |-> b.db, em |-> b.em,
                   resp |-> Resp("add", body.id, 201, ad.ret, FALSE, "")]

\* routes/movies.ts:33-108   POST /
postMovieHandlerF(d, body, t, ioSet, fail) ==
  IF body.id = "" \/ body.title = "" \/ body.year = "" \/ body.poster = ""
  THEN postMovieHandler(d, body, t, ioSet)
  ELSE
    LET ex == getMovieById(d, body.id)
    IN IF ex.ret # <<>> /\ ex.ret[1].status = "active"
       THEN castVoteF("add", ex.db, body.id, t, ioSet, fail,
                      "Failed to vote for existing movie",
                      "Movie already existed, vote incremented")
       ELSE IF ex.ret # <<>> /\ ex.ret[1].status = "winner"
       THEN pastWinner(ex.db, body, t, ioSet)
       ELSE createMovieF(ex.db, body, t, ioSet, fail)

\* ---------------------------------------------------------------------
\* Catalog search  (services/omdb.ts, routes/search.ts)
\* A query, a page parameter and the total sent by the catalog are texts:
\* sequences of characters.  An optional value is <<>> or <<value>>.
\* ---------------------------------------------------------------------
RECURSIVE TrimStart(_)
TrimStart(s) ==
  IF s # <<>> /\ Head(s) = " " THEN TrimStart(Tail(s)) ELSE s

RECURSIVE TrimEnd(_)
TrimEnd(s) ==
  IF s # <<>> /\ s[Len(s)] = " "
  THEN TrimEnd(SubSeq(s, 1, Len(s) - 1)) ELSE s

\* String.prototype.trim
Trim(s) == TrimEnd(TrimStart(s))

DigitValue ==
  [c \in {"0", "1", "2", "3", "4", "5", "6", "7", "8", "9"} |->
     CASE c = "0" -> 0 [] c = "1" -> 1 [] c = "2" -> 2 [] c = "3" -> 3
       [] c = "4" -> 4 [] c = "5" -> 5 [] c = "6" -> 6 [] c = "7" -> 7
       [] c = "8" -> 8 [] c = "9" -> 9]

RECURSIVE ParseDigits(_, _)
ParseDigits(s, acc) ==
  IF s = <<>> \/ Head(s) \notin DOMAIN DigitValue THEN acc
  ELSE ParseDigits(Tail(s), 10 * acc + DigitValue[Head(s)])

\* Number.parseInt(s, 10) on a text without sign: the leading digits, or
\* NaN (<<>>) when the text does not start with a digit
ParseInt(s) ==
  IF TrimStart(s) = <<>> \/ Head(TrimStart(s)) \notin DOMAIN DigitValue
  THEN <<>>
  ELSE <<ParseDigits(TrimStart(s), 0)>>

\* process.env.OMDB_API_KEY at the time of the call: unset or set
ApiKeys == {<<>>, <<"k">>}

\* req.query.q and req.query.page
Queries ==
  {<<>>, <<" ">>, <<"m">>, <<" ", "m", " ">>, <<"m", "x">>, <<"x">>}

Pages == {<<>>, <<"2">>, <<"3">>, <<"1", "0">>, <<"0">>, <<"x">>}

SearchHits ==
  << [imdbID |-> "a", Title |-> "T1", Year |-> "2000", Poster |-> "p1",
      Type |-> "movie"],
     [imdbID |-> "b", Title |-> "T2", Year |-> "2001", Poster |-> "N/A",
      Type |-> "movie"] >>

\* What the catalog does with the request: it replies (HTTP status and,
\* for 200, the body), it stays silent, the connection fails, or the call
\* fails inside the process before anything is sent ("bug")
Upstream(kind, status, resp, search, total) ==
  [kind |-> kind, status |-> status, Response |-> resp, Search |-> search,
   totalResults |-> total]

UpstreamOutcomes ==
  { Upstream("reply", 200, "True", <<SearchHits>>, <<<<"1", "2">>>>),
    Upstream("reply", 200, "True", <<>>, <<>>),
    Upstream("reply", 200, "False", <<>>, <<>>),
    Upstream("reply", 401, "False", <<>>, <<>>),
    Upstream("reply", 500, "", <<>>, <<>>),
    Upstream("silent", 0, "", <<>>, <<>>),
    Upstream("refused", 0, "", <<>>, <<>>),
    Upstream("bug", 0, "", <<>>, <<>>) }

\* axios.get(url, {params, timeout: 5000}) (omdb.ts:33-41): the body of a
\* 2xx reply; an AxiosError with the reply attached for another status
\* (validateStatus), with code ECONNABORTED when nothing came within the
\* timeout, with the code of the socket error when the connection failed;
\* or an error that is not an AxiosError
axiosGet(u) ==
  IF u.kind = "reply" /\ u.status \in 200..299
  THEN [threw |-> FALSE, isAxios |-> FALSE, code |-> "", status |-> <<>>,
        message |-> "", data |-> u]
  ELSE IF u.kind = "reply"
  THEN [threw |-> TRUE, isAxios |-> TRUE,
        code |-> IF u.status < 500 THEN "ERR_BAD_REQUEST"
                 ELSE "ERR_BAD_RESPONSE",
        status |-> <<u.status>>, message |-> "Request failed with status code",
        data |-> u]
  ELSE IF u.kind = "silent"
  THEN [threw |-> TRUE, isAxios |-> TRUE, code |-> "ECONNABORTED",
        status |-> <<>>, message |-> "timeout of 5000ms exceeded",
        data |-> u]
  ELSE IF u.kind = "refused"
  THEN [threw |-> TRUE, isAxios |-> TRUE, code |-> "ECONNREFUSED",
        status |-> <<>>, message |-> "connect ECONNREFUSED", data |-> u]
  ELSE [threw |-> TRUE, isAxios |-> FALSE, code |-> "", status |-> <<>>,
        message |-> "TypeError", data |-> u]

\* omdb.ts:6-13   (<<>> is the thrown error, else <<key>>)
getApiKey(env) == env

Thrown(message) ==
  [threw |-> TRUE, message |-> message, results |-> <<>>,
   totalResults |-> 0]

\* Mutation of searchMovies: a catalog without match is reported as an
\* error
searchMoviesNoMatchThrows(env, query, page, u) ==
  IF getApiKey(env) = <<>> THEN Thrown("OMDb API key is not configured")
  ELSE IF query = <<>> \/ Len(Trim(query)) = 0
  THEN Thrown("Search query cannot be empty")
  ELSE
    LET got == axiosGet(u)
    IN IF got.threw
       THEN IF got.isAxios
            THEN IF got.code = "ECONNABORTED"
                 THEN Thrown("OMDb API request timed out")
                 ELSE IF got.status = <<401>>
                 THEN Thrown("Invalid OMDb API key")
                 ELSE Thrown("OMDb API error: " \o got.message)
            ELSE Thrown(got.message)
       ELSE IF got.data.Response = "False"
       THEN Thrown("Movie not found!")
       ELSE [threw |-> FALSE, message |-> "",
             results |-> IF got.data.Search = <<>> THEN <<>>
                         ELSE got.data.Search[1],
             totalResults |->
               LET n == ParseInt(IF got.data.totalResults = <<>>
                                 THEN <<"0">>
                                 ELSE got.data.totalResults[1])
               IN IF n = <<>> THEN 0 ELSE n[1]]

\* omdb.ts:22-69   OMDbService.searchMovies
searchMovies(env, query, page, u) ==
  IF getApiKey(env) = <<>> THEN Thrown("OMDb API key is not configured")
  ELSE IF query = <<>> \/ Len(Trim(query)) = 0
  THEN Thrown("Search query cannot be empty")
  ELSE
    LET got == axiosGet(u)
    IN IF got.threw
       THEN IF got.isAxios
            THEN IF got.code = "ECONNABORTED"
                 THEN Thrown("OMDb API request timed out")
                 ELSE IF got.status = <<401>>
                 THEN Thrown("Invalid OMDb API key")
                 ELSE Thrown("OMDb API error: " \o got.message)
            ELSE Thrown(got.message)
       ELSE IF got.data.Response = "False"
       THEN [threw |-> FALSE, message |-> "", results |-> <<>>,
             totalResults |-> 0]
       ELSE [threw |-> FALSE, message |-> "",
             results |-> IF got.data.Search = <<>> THEN <<>>
                         ELSE got.data.Search[1],
             totalResults |->
               LET n == ParseInt(IF got.data.totalResults = <<>>
                                 THEN <<"0">>
                                 ELSE got.data.totalResults[1])
               IN IF n = <<>> THEN 0 ELSE n[1]]

\* routes/search.ts:33-39
SearchItem(movie) ==
  [id |-> movie.imdbID, title |-> movie.Title, year |-> movie.Year,
   poster |-> IF movie.Poster = "N/A" THEN <<>> ELSE <<movie.Poster>>,
   type |-> movie.Type]

SearchResp(status, q, pageNumber, total, results, text) ==
  Resp("search", "", status,
       <<[query |-> q, page |-> pageNumber, totalResults |-> total,
          results |-> results]>>,
       FALSE, text)

\* routes/search.ts:7-47   GET /api/search
searchHandler(d, q, page, env, u) ==
  LET pageNumber == IF page = <<>> THEN <<1>> ELSE ParseInt(page)
      r == searchMovies(env, q, pageNumber[1], u)
  IN [db |-> d, em |-> <<>>,
      resp |->
        IF q = <<>>
        THEN SearchResp(400, q, <<>>, 0, <<>>,
                        "Query parameter q is required")
        ELSE IF pageNumber = <<>> \/ pageNumber[1] < 1
        THEN SearchResp(400, q, <<>>, 0, <<>>, "Invalid page number")
        ELSE IF r.threw
        THEN SearchResp(500, q, pageNumber, 0, <<>>, r.message)
        ELSE SearchResp(200, q, pageNumber, r.totalResults,
                        [i \in 1..Len(r.results) |->
                           SearchItem(r.results[i])],
                        "")]

\* ---------------------------------------------------------------------
\* The browser tab.  App keeps the lists it shows in two state cells,
\* movies and winners (useState), and changes them in the callbacks it
\* hands to useWebSocket; the hook registers them on the one socket of
\* wsService (hooks/useWebSocket.ts:22-59).  .socket is <<>> while no
\* component is mounted, else <<c>>.  The repository holds two texts of
\* App: client/src/App.tsx and the later one with onMoviesInitial and the
\* duplicate check in onMovieAdded.
\* ---------------------------------------------------------------------
AppVersions == {"App.tsx", "App.tsx+initial"}

Unmounted ==
  [socket |-> <<>>, version |-> "App.tsx", movies |-> <<>>, winners |-> <<>>]

\* onMoviesInitial: setMovies(movies); client/src/App.tsx passes no such
\* callback and the event is dropped (useWebSocket.ts:27-29)
onMoviesInitial(st, ms) ==
  IF st.version = "App.tsx" THEN st ELSE [st EXCEPT !.movies = ms]

\* onMovieAdded: setMovies(prev => [movie, ...prev]); the later text
\* returns prev when prev holds the id
onMovieAdded(st, movie) ==
  IF st.version # "App.tsx"
       /\ \E i \in 1..Len(st.movies) : st.movies[i].id = movie.id
  THEN st
  ELSE [st EXCEPT !.movies = <<movie>> \o st.movies]

\* onMovieVoted: setMovies(prev => prev.map(m => m.id === movie.id ? movie : m))
onMovieVoted(st, movie) ==
  [st EXCEPT !.movies = [i \in 1..Len(st.movies) |->
                           IF st.movies[i].id = movie.id
                           THEN movie ELSE st.movies[i]]]

\* onMovieWinner: setMovies(prev => prev.filter(m => m.id !== winner.movieId));
\* setWinners(prev => [winner, ...prev])
onMovieWinner(st, winner) ==
  [st EXCEPT !.movies = SelectSeq(st.movies,
                                  LAMBDA m : m.id # winner.movieId),
             !.winners = <<winner>> \o st.winners]

\* onWinnersUpdated: setWinners(updatedWinners)
onWinnersUpdated(st, ws) == [st EXCEPT !.winners = ws]

\* socket.on(event, handler) (useWebSocket.ts:44-48): one listener per event
AppOn(st, e) ==
  IF e.event = "movies:initial" THEN onMoviesInitial(st, e.payload)
  ELSE IF e.event = "movie:added" THEN onMovieAdded(st, e.payload[1])
  ELSE IF e.event = "movie:voted" THEN onMovieVoted(st, e.payload[1])
  ELSE IF e.event = "movie:winner" THEN onMovieWinner(st, e.payload[1])
  ELSE IF e.event = "winners:updated" THEN onWinnersUpdated(st, e.payload)
  ELSE st

\* The socket hands the packets to the listeners in the order of arrival,
\* which on one websocket is the order of emission
RECURSIVE AppReceive(_, _)
AppReceive(st, em) ==
  IF em = <<>> THEN st ELSE AppReceive(AppOn(st, Head(em)), Tail(em))

\* What the tab mounted on sockets[.socket] holds after the packets of sent
AppAfter(st, sent) ==
  IF st.socket = <<>> THEN st ELSE AppReceive(st, sent[st.socket[1]])

\* ---------------------------------------------------------------------
\* The state machine
\* ---------------------------------------------------------------------
DB == DbOf(movies, winners, winnerSeq, activeMoviesCache, winnersCache,
           movieByIdCache)

\* A handler that stored a row read Date.now() (database.ts:167, 253)
ReadClock(h) == Len(h.db.movies) > Len(movies) \/ h.db.winnerSeq > winnerSeq

Commit(h, t) ==
  /\ h.db.winnerSeq <= MaxWinnerId
  /\ movies' = h.db.movies
  /\ winners' = h.db.winners
  /\ winnerSeq' = h.db.winnerSeq
  /\ activeMoviesCache' = h.db.activeMoviesCache
  /\ winnersCache' = h.db.winnersCache
  /\ movieByIdCache' = h.db.movieByIdCache
  /\ emitted' = h.em
  /\ response' = h.resp
  /\ delivered' = Deliver(h.em, clients)
  /\ app' = AppAfter(app, Deliver(h.em, clients))
  /\ now' = IF ReadClock(h) THEN t ELSE now
  /\ UNCHANGED <<io, clients>>

\* Date.now() does not go back: the next reading is the last one or later
Clock == now..MaxNow

\* database.ts:66-84: a fresh database file and empty caches.
\* server.ts:295-298: wsService.initialize(httpServer) runs at start-up,
\* before the server listens (NODE_ENV other than 'test').
Init ==
  /\ movies = <<>>
  /\ winners = <<>>
  /\ winnerSeq = 0
  /\ activeMoviesCache = <<>>
  /\ winnersCache = <<>>
  /\ movieByIdCache = <<>>
  /\ now = 0
  /\ io = TRUE
  /\ emitted = <<>>
  /\ response = Resp("none", "", 0, <<>>, FALSE, "")
  /\ clients = {}
  /\ delivered = Deliver(<<>>, {})
  /\ app = Unmounted

GetMovies == \E h \in {getMoviesHandler(DB, io)} : Commit(h, now)

GetWinners == \E h \in {getWinnersHandler(DB, io)} : Commit(h, now)

PostMovie ==
  \E body \in Bodies, t \in Clock :
    /\ body \in Resubmitted => SqlGetMovieById(movies, body.id) # <<>>
    /\ \E h \in {postMovieHandler(DB, body, t, io)} : Commit(h, t)

PostVote ==
  \E id \in Ids, t \in Clock :
    \E h \in {voteHandler(DB, id, t, io)} : Commit(h, t)

DeleteMovie ==
  \E id \in Ids : \E h \in {deleteHandler(DB, id)} : Commit(h, now)

DeleteAllMovies == \E h \in {clearHandler(DB)} : Commit(h, now)

\* db.clearAllWinners() has no route: it is called on the database object
\* (tests/api.test.ts beforeEach, tests/database.test.ts)
ClearAllWinners ==
  \E h \in {[db |-> clearAllWinners(DB), em |-> <<>>,
             resp |-> Resp("clearWinners", "", 0, <<>>, FALSE, "")]} :
    Commit(h, now)

Next ==
  \/ GetMovies
  \/ GetWinners
  \/ PostMovie
  \/ PostVote
  \/ DeleteMovie
  \/ DeleteAllMovies
  \/ ClearAllWinners

Spec == Init /\ [][Next]_vars

\* The routes and calls that write to the store. The two GET routes change
\* nothing but activeMoviesCache, winnersCache and the response, and what
\* they return is ListActive and ListWinners below, evaluated on every state:
\* the properties of a writing step are checked over these steps alone.
NextWrite ==
  \/ PostMovie
  \/ PostVote
  \/ DeleteMovie
  \/ DeleteAllMovies
  \/ ClearAllWinners

SpecWrite == Init /\ [][NextWrite]_vars

\* The writing requests served within one millisecond: every Date.now()
\* reads the same value
PostMovieNow ==
  \E body \in Bodies :
    /\ body \in Resubmitted => SqlGetMovieById(movies, body.id) # <<>>
    /\ \E h \in {postMovieHandler(DB, body, now, io)} : Commit(h, now)

PostVoteNow ==
  \E id \in Ids : \E h \in {voteHandler(DB, id, now, io)} : Commit(h, now)

NextNow ==
  \/ PostMovieNow
  \/ PostVoteNow
  \/ DeleteMovie
  \/ DeleteAllMovies
  \/ ClearAllWinners

SpecNow == Init /\ [][NextNow]_vars

\* GET /api/search: the handler awaits the catalog and touches neither the
\* store nor the sockets
GetSearch ==
  \E q \in Queries, page \in Pages, env \in ApiKeys, u \in UpstreamOutcomes :
    \E h \in {searchHandler(DB, q, page, env, u)} : Commit(h, now)

SpecSearch == Init /\ [][GetSearch]_vars

\* ---------------------------------------------------------------------
\* One tab is open from the start: its socket is connected and App is
\* mounted before the first request, and candidates are added and voted.
\* ---------------------------------------------------------------------
InitApp ==
  /\ movies = <<>>
  /\ winners = <<>>
  /\ winnerSeq = 0
  /\ activeMoviesCache = <<>>
  /\ winnersCache = <<>>
  /\ movieByIdCache = <<>>
  /\ now = 0
  /\ io = TRUE
  /\ emitted = <<>>
  /\ response = Resp("none", "", 0, <<>>, FALSE, "")
  /\ \E c \in Sockets, v \in AppVersions :
       /\ clients = {c}
       /\ delivered = Deliver(<<>>, {c})
       /\ app = [Unmounted EXCEPT !.socket = <<c>>, !.version = v]

NextApp ==
  \/ PostMovieNow
  \/ PostVoteNow

SpecApp == InitApp /\ [][NextApp]_vars

\* ---------------------------------------------------------------------
\* An LRUCache object of maxSize LruCapacity driven call by call.  The
\* cache is held in movieByIdCache; the record of the last call (its
\* arguments, what it returned, and the keys that left the map during it)
\* is held in response.
\* ---------------------------------------------------------------------
LruKeys == {"a", "b", "c", "d"}

LruValues == {<<>>, <<"m1">>, <<"m2">>}

LruKeysOf(c) == {c[i].key : i \in 1..Len(c)}

LruCall(op, k, v, ret, c1) ==
  /\ movieByIdCache' = c1
  /\ response' = [op |-> op, key |-> k, val |-> v, ret |-> ret,
                   dropped |-> LruKeysOf(movieByIdCache) \ LruKeysOf(c1)]
  /\ UNCHANGED <<movies, winners, winnerSeq, activeMoviesCache,
                 winnersCache, now, io, emitted, clients, delivered, app>>

LruGetCall ==
  \E k \in LruKeys : \E got \in {LruGet(movieByIdCache, k)} :
    LruCall("get", k, <<>>, got.val, got.cache)

LruSetCall ==
  \E k \in LruKeys, v \in LruValues :
    LruCall("set", k, v, <<>>, LruSetMax(movieByIdCache, k, v, LruCapacity))

LruDeleteCall ==
  \E k \in LruKeys :
    LruCall("delete", k, <<>>, <<>>, LruDelete(movieByIdCache, k))

LruClearCall ==
  LruCall("clear", "", <<>>, <<>>, LruClear(movieByIdCache))

NextLru ==
  \/ LruGetCall
  \/ LruSetCall
  \/ LruDeleteCall
  \/ LruClearCall

SpecLru == Init /\ [][NextLru]_vars

\* ---------------------------------------------------------------------
\* Sockets come and go while requests are served.
\* ---------------------------------------------------------------------

\* Mutation of Connect: the events of the last request are replayed to
\* the socket that connects
ConnectReplays(c) ==
  /\ io
  /\ c \notin clients
  /\ clients' = clients \cup {c}
  /\ delivered' = [Deliver(<<>>, clients') EXCEPT ![c] = emitted]
  /\ UNCHANGED <<movies, winners, winnerSeq, activeMoviesCache,
                 winnersCache, movieByIdCache, now, io, emitted, response,
                 app>>

\* websocket.ts:19-31  io.on('connection'): the handler logs and registers
\* the socket's listeners; it emits nothing to the socket.  The Server is
\* built without connectionStateRecovery (websocket.ts:12-17): it keeps
\* no packets for a socket that was not connected.
Connect(c) ==
  /\ io
  /\ c \notin clients
  /\ clients' = clients \cup {c}
  /\ delivered' = Deliver(<<>>, clients')
  /\ UNCHANGED <<movies, winners, winnerSeq, activeMoviesCache,
                 winnersCache, movieByIdCache, now, io, emitted, response,
                 app>>

\* websocket.ts:21-23  socket.on('disconnect'): a log line
Disconnect(c) ==
  /\ c \in clients
  /\ clients' = clients \ {c}
  /\ delivered' = Deliver(<<>>, clients')
  /\ UNCHANGED <<movies, winners, winnerSeq, activeMoviesCache,
                 winnersCache, movieByIdCache, now, io, emitted, response,
                 app>>

SocketConnects == \E c \in Sockets : Connect(c)

SocketDisconnects == \E c \in Sockets : Disconnect(c)

NextFanout ==
  \/ SocketConnects
  \/ SocketDisconnects
  \/ GetMovies
  \/ PostMovieNow
  \/ PostVoteNow

SpecFanout == Init /\ [][NextFanout]_vars

\* ---------------------------------------------------------------------
\* The add and vote routes with a step that may throw, on a server started
\* with or without the broadcaster (server.ts:295-298: NODE_ENV 'test'
\* skips wsService.initialize, and io stays null)
\* ---------------------------------------------------------------------
InitFault ==
  /\ movies = <<>>
  /\ winners = <<>>
  /\ winnerSeq = 0
  /\ activeMoviesCache = <<>>
  /\ winnersCache = <<>>
  /\ movieByIdCache = <<>>
  /\ now = 0
  /\ io \in BOOLEAN
  /\ emitted = <<>>
  /\ response = Resp("none", "", 0, <<>>, FALSE, "")
  /\ clients = {}
  /\ delivered = Deliver(<<>>, {})
  /\ app = Unmounted

\* A promotion that failed half-way can be repeated, and each repetition
\* counts one more vote: the count is capped
CommitFault(h, t) ==
  /\ \A i \in 1..Len(h.db.movies) :
       h.db.movies[i].votes <= WinThreshold + MaxOvershoot
  /\ Commit(h, t)

PostMovieF ==
  \E body \in Bodies, t \in Clock, fail \in Faults :
    /\ body \in Resubmitted => SqlGetMovieById(movies, body.id) # <<>>
    /\ \E h \in {postMovieHandlerF(DB, body, t, io, fail)} : CommitFault(h, t)

PostVoteF ==
  \E id \in Ids, t \in Clock, fail \in Faults :
    \E h \in {voteHandlerF(DB, id, t, io, fail)} : CommitFault(h, t)

NextFault ==
  \/ PostMovieF
  \/ PostVoteF
  \/ DeleteMovie

SpecFault == InitFault /\ [][NextFault]_vars

\* ---------------------------------------------------------------------
\* The MovieDatabase object driven method by method, as
\* tests/database.test.ts drives it and as the routes call it: every route
\* is a sequence of these calls (getMovieById is the first step of
\* incrementVote).  No request is answered and nothing is
\* emitted here, and the clock takes more than one value, so that rows
\* carry different addedAt and wonAt.
\* ---------------------------------------------------------------------
Settle(d, t) ==
  /\ d.winnerSeq <= MaxWinnerId
  /\ movies' = d.movies
  /\ winners' = d.winners
  /\ winnerSeq' = d.winnerSeq
  /\ activeMoviesCache' = d.activeMoviesCache
  /\ winnersCache' = d.winnersCache
  /\ movieByIdCache' = d.movieByIdCache
  /\ now' = IF Len(d.movies) > Len(movies) \/ d.winnerSeq > winnerSeq
            THEN t ELSE now
  /\ UNCHANGED <<io, emitted, response, clients, delivered, app>>

DbClock == now..MaxDbNow

\* db.addMovie(movie): the INSERT throws on a stored id (id TEXT PRIMARY
\* KEY) before anything is changed, so the call acts on a new id only
DbAddMovie ==
  \E movie \in Catalog, t \in DbClock :
    /\ SqlGetMovieById(movies, movie.id) = <<>>
    /\ Settle(addMovie(DB, movie, t).db, t)

DbGetAllActiveMovies == Settle(getAllActiveMovies(DB).db, now)

DbGetAllWinners == Settle(getAllWinners(DB).db, now)

DbIncrementVote ==
  \E id \in Ids, t \in DbClock : Settle(incrementVote(DB, id, t).db, t)

DbDeleteMovie == \E id \in Ids : Settle(deleteMovie(DB, id).db, now)

DbClearAllMovies == Settle(clearAllMovies(DB), now)

DbClearAllWinners == Settle(clearAllWinners(DB), now)

NextDb ==
  \/ DbAddMovie
  \/ DbGetAllActiveMovies
  \/ DbGetAllWinners
  \/ DbIncrementVote
  \/ DbDeleteMovie
  \/ DbClearAllMovies
  \/ DbClearAllWinners

SpecDb == Init /\ [][NextDb]_vars

\* ---------------------------------------------------------------------
\* The read caches alone: every MovieDatabase method, the by-id read
\* included, called in any order within one millisecond (the caches do
\* not depend on the clock).
\* ---------------------------------------------------------------------
DbGetMovieById == \E id \in Ids : Settle(getMovieById(DB, id).db, now)

DbAddMovieNow ==
  \E movie \in Catalog :
    /\ SqlGetMovieById(movies, movie.id) = <<>>
    /\ Settle(addMovie(DB, movie, now).db, now)

DbIncrementVoteNow ==
  \E id \in Ids : Settle(incrementVote(DB, id, now).db, now)

NextCache ==
  \/ DbAddMovieNow
  \/ DbGetMovieById
  \/ DbGetAllActiveMovies
  \/ DbGetAllWinners
  \/ DbIncrementVoteNow
  \/ DbDeleteMovie
  \/ DbClearAllMovies
  \/ DbClearAllWinners

SpecCache == Init /\ [][NextCache]_vars

TypeOK ==
  /\ now \in (0..MaxNow) \cup (0..MaxDbNow)
  /\ winnerSeq \in 0..MaxWinnerId
  /\ io \in BOOLEAN
  /\ Len(movies) <= Cardinality(Ids)
  /\ clients \subseteq Sockets
  /\ DOMAIN delivered = Sockets
  /\ app.version \in AppVersions

\* =====================================================================
\* Properties
\* =====================================================================

\* Vocabulary of the properties -----------------------------------------
HasId(m, id) == \E i \in 1..Len(m) : m[i].id = id

RowOf(m, id) == m[CHOOSE i \in 1..Len(m) : m[i].id = id]

ActiveIn(m, id) == HasId(m, id) /\ RowOf(m, id).status = "active"

WinnerIn(m, id) == HasId(m, id) /\ RowOf(m, id).status = "winner"

\* What the three reads return in the current state, caches included
ListActive == getAllActiveMovies(DB).ret

ListWinners == getAllWinners(DB).ret

Lookup(id) == getMovieById(DB, id).ret

\* The step just taken answered a request of kind op on id with status st
Answered(op, id, st) ==
  /\ response'.op = op
  /\ response'.id = id
  /\ response'.status = st

\* The step just taken is an accepted vote on id: POST /:id/vote, or
\* POST / on a stored id, answered 200
AcceptedVote(id) == Answered("vote", id, 200) \/ Answered("add", id, 200)

\* The ledger after the step is the ledger before it plus one record
Appended(w, w2) ==
  /\ Len(w2) = Len(w) + 1
  /\ SubSeq(w2, 1, Len(w)) = w

\* ---------------------------------------------------------------------
\* C1  Promotion happens if and only if an accepted vote brings the count to
\* exactly 10: an accepted vote that leaves the count below 10 changes
\* neither the status nor the ledger; one that reaches 10 sets status winner
\* and appends exactly one WinnerRecord for that id; the ledger grows and a
\* status becomes winner in no other step; every record has finalVotes 10.
\* ---------------------------------------------------------------------
C1_PromotionIffTenthVote ==
  [][ /\ \A id \in Ids :
           AcceptedVote(id) =>
             /\ ActiveIn(movies, id)
             /\ HasId(movies', id)
             /\ RowOf(movies', id).votes = RowOf(movies, id).votes + 1
             /\ IF RowOf(movies, id).votes + 1 = 10
                THEN /\ RowOf(movies', id).status = "winner"
                     /\ Appended(winners, winners')
                     /\ winners'[Len(winners')].movieId = id
                ELSE /\ RowOf(movies', id).status = "active"
                     /\ winners' = winners
      /\ \A id \in Ids :
           (~WinnerIn(movies, id) /\ WinnerIn(movies', id)) =>
             /\ AcceptedVote(id)
             /\ RowOf(movies', id).votes = 10
      /\ Len(winners') > Len(winners) =>
           \E id \in Ids :
             /\ AcceptedVote(id)
             /\ ActiveIn(movies, id)
             /\ RowOf(movies, id).votes + 1 = 10
      /\ \A i \in 1..Len(winners') : winners'[i].finalVotes = 10
    ]_vars

\* a 10th vote has just been accepted and its record is in the ledger
C1_Witness ==
  /\ response.op = "vote"
  /\ response.status = 200
  /\ WinnerIn(movies, response.id)
  /\ \E i \in 1..Len(winners) :
       winners[i].movieId = response.id /\ winners[i].finalVotes = 10

\* ---------------------------------------------------------------------
\* C2  In every reachable state every candidate with status active has a
\* vote count in 0..9, in the table and in what every read returns: no
\* state shows votes >= 10 with status active.
\* ---------------------------------------------------------------------
C2_ActiveBelowThreshold ==
  /\ \A i \in 1..Len(movies) :
       movies[i].status = "active" => movies[i].votes \in 0..9
  /\ \A i \in 1..Len(ListActive) : ListActive[i].votes \in 0..9
  /\ \A id \in Ids :
       (Lookup(id) # <<>> /\ Lookup(id)[1].status = "active")
         => Lookup(id)[1].votes \in 0..9
  /\ \A i \in 1..Len(movies) :
       movies[i].status = "winner" => movies[i].votes = 10

\* one candidate one vote short of the threshold next to one that has won
C2_Witness ==
  \E i, j \in 1..Len(movies) :
    /\ movies[i].status = "active" /\ movies[i].votes = 9
    /\ movies[j].status = "winner" /\ movies[j].votes = 10

\* ---------------------------------------------------------------------
\* C3  The vote count of a candidate never decreases while it is active,
\* and once a candidate has won its count is frozen forever: no operation
\* changes the votes of a winner, and an identifier the ledger records as
\* having won is never again a candidate with another count or status.
\* ---------------------------------------------------------------------
C3_VotesFrozenOnceWon ==
  [][ /\ \A id \in Ids :
           (ActiveIn(movies, id) /\ HasId(movies', id)) =>
             RowOf(movies', id).votes >= RowOf(movies, id).votes
      /\ \A id \in Ids :
           (WinnerIn(movies, id) /\ HasId(movies', id)) =>
             /\ RowOf(movies', id).status = "winner"
             /\ RowOf(movies', id).votes = RowOf(movies, id).votes
      /\ \A i \in 1..Len(winners') :
           HasId(movies', winners'[i].movieId) =>
             /\ RowOf(movies', winners'[i].movieId).status = "winner"
             /\ RowOf(movies', winners'[i].movieId).votes
                  = winners'[i].finalVotes
    ]_vars

\* ---------------------------------------------------------------------
\* C4  At any point in time the identifiers returned by
\* ListActiveCandidates and the candidate identifiers referenced by
\* ListWinners are disjoint.
\* ---------------------------------------------------------------------
C4_ActiveAndWinnersDisjoint ==
  \A i \in 1..Len(ListActive), j \in 1..Len(ListWinners) :
    ListActive[i].id # ListWinners[j].movieId

\* ---------------------------------------------------------------------
\* C5  As long as the ledger has not been cleared (every record ever
\* appended is still in it), no two WinnerRecords reference the same
\* identifier: a candidate is promoted at most once.
\* ---------------------------------------------------------------------
C5_OneRecordPerIdentifier ==
  Len(winners) = winnerSeq =>
    \A i, j \in 1..Len(winners) :
      winners[i].movieId = winners[j].movieId => i = j

\* ---------------------------------------------------------------------
\* C6  The status of a candidate changes only from active to winner and
\* only by an accepted vote that reaches the threshold; winner is terminal:
\* no operation returns a winner to active or takes it out of the winner
\* state.
\* ---------------------------------------------------------------------
C6_WinnerIsTerminal ==
  [][ \A id \in Ids :
        /\ WinnerIn(movies, id) => WinnerIn(movies', id)
        /\ (ActiveIn(movies, id) /\ WinnerIn(movies', id)) =>
             /\ AcceptedVote(id)
             /\ RowOf(movies', id).votes = 10
    ]_vars

\* ---------------------------------------------------------------------
\* C7  POST / with a valid body on an identifier stored with status active
\* has exactly the effect of one accepted POST /:id/vote: the count grows by
\* exactly 1, no row is added and no other row changes, the 10th vote
\* promotes and appends the WinnerRecord, the events emitted are those of a
\* vote (movie:voted with the updated candidate, or movie:winner followed
\* by winners:updated when it promotes), and the answer is 200 with the
\* message that the movie already existed, never 201.
\* ---------------------------------------------------------------------
VoteEffect(id) ==
  LET old == RowOf(movies, id)
      new == RowOf(movies', id)
      promoted == old.votes + 1 = 10
  IN /\ ActiveIn(movies, id)
     /\ Len(movies') = Len(movies)
     /\ \A i \in 1..Len(movies) :
          IF movies[i].id = id
          THEN movies'[i] =
                 [old EXCEPT !.votes = old.votes + 1,
                             !.status = IF promoted THEN "winner" ELSE "active"]
          ELSE movies'[i] = movies[i]
     /\ IF promoted
        THEN /\ Appended(winners, winners')
             /\ winners'[Len(winners')] =
                  [id |-> winnerSeq + 1, movieId |-> id, title |-> old.title,
                   year |-> old.year, poster |-> old.poster,
                   finalVotes |-> 10, wonAt |-> now']
             /\ emitted' =
                  << [event |-> "movie:winner", payload |-> <<ListWinners'[1]>>],
                     [event |-> "winners:updated", payload |-> ListWinners'] >>
        ELSE /\ winners' = winners
             /\ emitted' = << [event |-> "movie:voted", payload |-> <<new>>] >>
     /\ response'.data = <<new>>
     /\ response'.isWinner = promoted

C7_ResubmitIsOneVote ==
  [][ \A id \in Ids :
        /\ Answered("vote", id, 200) => VoteEffect(id)
        /\ (response'.op = "add" /\ response'.id = id
              /\ response'.status # 400 /\ ActiveIn(movies, id)) =>
             /\ response'.status = 200
             /\ response'.text = "Movie already existed, vote incremented"
             /\ VoteEffect(id)
    ]_vars

\* the 10th vote has just been delivered by a re-submission and promoted
C7_Witness ==
  /\ response.op = "add"
  /\ response.status = 200
  /\ response.isWinner
  /\ WinnerIn(movies, response.id)
  /\ Len(emitted) = 2

\* ---------------------------------------------------------------------
\* C8  POST / with a valid body on an identifier whose candidate has status
\* winner is answered 409 and leaves the movies table, the ledger and what
\* the reads return unchanged, and emits no event.
\* ---------------------------------------------------------------------
C8_ReaddWinnerConflicts ==
  [][ \A id \in Ids :
        (response'.op = "add" /\ response'.id = id
           /\ response'.status # 400 /\ WinnerIn(movies, id)) =>
          /\ response'.status = 409
          /\ response'.data = <<>>
          /\ movies' = movies
          /\ winners' = winners
          /\ winnerSeq' = winnerSeq
          /\ ListActive' = ListActive
          /\ ListWinners' = ListWinners
          /\ emitted' = <<>>
    ]_vars

\* a re-submission of a past winner has just been refused
C8_Witness ==
  /\ response.op = "add"
  /\ response.status = 409
  /\ WinnerIn(movies, response.id)
  /\ Len(winners) > 0

\* ---------------------------------------------------------------------
\* C9  POST /:id/vote on an identifier that is not stored, or is stored
\* with status winner, gets the same not-found signal in both cases (null
\* from incrementVote, 404 with one message), changes no row of either
\* table and nothing that a read returns, and emits no event.
\* ---------------------------------------------------------------------
C9_VoteOnMissingOrWinner ==
  [][ \A id \in Ids :
        (response'.op = "vote" /\ response'.id = id
           /\ ~ActiveIn(movies, id)) =>
          /\ incrementVote(DB, id, now).ret = <<>>
          /\ response' = Resp("vote", id, 404, <<>>, FALSE,
                              "Movie not found or already won")
          /\ movies' = movies
          /\ winners' = winners
          /\ winnerSeq' = winnerSeq
          /\ \A k \in Ids : Lookup(k)' = Lookup(k)
          /\ ListActive' = ListActive
          /\ ListWinners' = ListWinners
          /\ emitted' = <<>>
    ]_vars

\* a vote on a past winner has just been refused while another candidate
\* is on the ballot
C9_Witness ==
  /\ response.op = "vote"
  /\ response.status = 404
  /\ WinnerIn(movies, response.id)
  /\ \E id \in Ids : ActiveIn(movies, id) /\ RowOf(movies, id).votes > 0

\* ---------------------------------------------------------------------
\* C10  POST /:id/vote on an active candidate with count v is answered 200
\* with a candidate whose count is v + 1, and v + 1 is the count stored;
\* the returned and the stored status are winner, and isWinner is true, if
\* and only if v + 1 = 10, otherwise active and false; title, year, poster
\* and addedAt are those stored before the vote.
\* ---------------------------------------------------------------------
C10_VoteReturnsIncrement ==
  [][ \A id \in Ids :
        (response'.op = "vote" /\ response'.id = id
           /\ ActiveIn(movies, id)) =>
          LET old == RowOf(movies, id)
              ret == response'.data[1]
          IN /\ response'.status = 200
             /\ Len(response'.data) = 1
             /\ ret.votes = old.votes + 1
             /\ ret.status = IF old.votes + 1 = 10 THEN "winner" ELSE "active"
             /\ response'.isWinner = (old.votes + 1 = 10)
             /\ ret.id = id
             /\ ret.title = old.title
             /\ ret.year = old.year
             /\ ret.poster = old.poster
             /\ ret.addedAt = old.addedAt
             /\ HasId(movies', id)
             /\ RowOf(movies', id) = ret
    ]_vars

\* the vote route has just returned a candidate that is still active, and
\* one that has won is stored next to it
C10_Witness ==
  /\ response.op = "vote"
  /\ response.status = 200
  /\ ~response.isWinner
  /\ response.data[1].votes = 9
  /\ \E id \in Ids : WinnerIn(movies, id)

\* ---------------------------------------------------------------------
\* C11  POST / with all four fields present on an identifier that is not
\* stored creates exactly one candidate with vote count 0 and status
\* active, made of the submitted fields, leaves every other row and the
\* ledger unchanged, emits exactly one movie:added carrying the new
\* candidate, and answers 201 with it.
\* ---------------------------------------------------------------------
C11_CreateAddsOneCandidate ==
  [][ \A id \in Ids :
        (response'.op = "add" /\ response'.id = id
           /\ response'.status # 400 /\ ~HasId(movies, id)) =>
          /\ response'.status = 201
          /\ Len(response'.data) = 1
          /\ LET new == response'.data[1]
             IN /\ new.id = id
                /\ new.votes = 0
                /\ new.status = "active"
                /\ new.addedAt = now'
                /\ \E body \in Bodies :
                     /\ body.id = id
                     /\ new.title = body.title
                     /\ new.year = body.year
                     /\ new.poster = body.poster
                /\ movies' = Append(movies, new)
                /\ emitted' = << [event |-> "movie:added",
                                  payload |-> <<new>>] >>
          /\ winners' = winners
          /\ winnerSeq' = winnerSeq
    ]_vars

\* a second candidate has just been created next to a past winner
C11_Witness ==
  /\ response.op = "add"
  /\ response.status = 201
  /\ Len(movies) = 2
  /\ movies[2].id = response.id
  /\ movies[2].votes = 0
  /\ WinnerIn(movies, movies[1].id)
  /\ Len(emitted) = 1

\* ---------------------------------------------------------------------
\* C12  DELETE /:id removes the candidate if and only if it is stored with
\* status active, and deleteMovie returns true exactly then (200); on a
\* missing id or a winner it returns false (404) and nothing changes.
\* After a delete that succeeded the id is not in what getAllActiveMovies
\* returns and a vote on it is refused as not found.
\* ---------------------------------------------------------------------
C12_DeleteOnlyActive ==
  [][ \A id \in Ids :
        (response'.op = "delete" /\ response'.id = id) =>
          IF ActiveIn(movies, id)
          THEN /\ deleteMovie(DB, id).ret = <<TRUE>>
               /\ response'.status = 200
               /\ movies' = SelectSeq(movies, LAMBDA r : r.id # id)
               /\ Len(movies') = Len(movies) - 1
               /\ winners' = winners
               /\ winnerSeq' = winnerSeq
               /\ \A i \in 1..Len(ListActive') : ListActive'[i].id # id
               /\ (incrementVote(DB, id, now).ret)' = <<>>
               /\ (voteHandler(DB, id, now, io).resp.status)' = 404
          ELSE /\ deleteMovie(DB, id).ret = <<FALSE>>
               /\ response'.status = 404
               /\ movies' = movies
               /\ winners' = winners
               /\ winnerSeq' = winnerSeq
               /\ ListActive' = ListActive
               /\ ListWinners' = ListWinners
               /\ \A k \in Ids : Lookup(k)' = Lookup(k)
    ]_vars

\* the delete of a winner has just been refused: its row is still stored
C12_Witness ==
  /\ response.op = "delete"
  /\ response.status = 404
  /\ WinnerIn(movies, response.id)
  /\ \E id \in Ids : ActiveIn(movies, id)

\* ---------------------------------------------------------------------
\* C13  DELETE / (clearAllMovies), from any reachable state, makes
\* getAllActiveMovies return the empty list and leaves what getAllWinners
\* returns (the records, their content and their order) and the winners
\* table unchanged.
\* ---------------------------------------------------------------------
C13_ClearMoviesKeepsLedger ==
  LET h == clearHandler(DB)
  IN /\ h.resp.status = 200
     /\ getAllActiveMovies(h.db).ret = <<>>
     /\ getAllWinners(h.db).ret = ListWinners
     /\ h.db.winners = winners
     /\ h.db.winnerSeq = winnerSeq
     /\ response.op = "clear" => ListActive = <<>>

\* DELETE / has just run on a store whose ledger holds a record
C13_Witness ==
  /\ response.op = "clear"
  /\ response.status = 200
  /\ movies = <<>>
  /\ Len(ListWinners) > 0

\* ---------------------------------------------------------------------
\* C14  clearAllWinners, from any reachable state, makes getAllWinners
\* return the empty list and leaves the movies table and what
\* getAllActiveMovies returns (the candidates, their counts and their
\* order) unchanged.
\* ---------------------------------------------------------------------
C14_ClearWinnersKeepsBallot ==
  LET d == clearAllWinners(DB)
  IN /\ getAllWinners(d).ret = <<>>
     /\ getAllActiveMovies(d).ret = ListActive
     /\ d.movies = movies
     /\ \A id \in Ids : getMovieById(d, id).ret = Lookup(id)
     /\ response.op = "clearWinners" => ListWinners = <<>>

\* the ledger has just been cleared while a candidate with votes is on
\* the ballot and a past winner is still stored
C14_Witness ==
  /\ response.op = "clearWinners"
  /\ winners = <<>>
  /\ winnerSeq > 0
  /\ \E i \in 1..Len(ListActive) : ListActive[i].votes > 0

\* ---------------------------------------------------------------------
\* C15  getAllActiveMovies, served from the table or from
\* activeMoviesCache, returns exactly the rows with status active, each
\* once, ordered by votes descending and, on equal votes, by addedAt
\* ascending: for A listed before B, A.votes > B.votes, or A.votes =
\* B.votes and A.addedAt <= B.addedAt.
\* ---------------------------------------------------------------------
C15_ActiveListSorted ==
  /\ Len(ListActive) = Len(SelectSeq(movies, LAMBDA r : r.status = "active"))
  /\ \A i \in 1..Len(movies) :
       movies[i].status = "active" =>
         \E k \in 1..Len(ListActive) : ListActive[k] = movies[i]
  /\ \A k \in 1..Len(ListActive) :
       /\ ListActive[k].status = "active"
       /\ \E i \in 1..Len(movies) : movies[i] = ListActive[k]
  /\ \A i, j \in 1..Len(ListActive) :
       i # j => ListActive[i].id # ListActive[j].id
  /\ \A i, j \in 1..Len(ListActive) :
       i < j =>
         \/ ListActive[i].votes > ListActive[j].votes
         \/ /\ ListActive[i].votes = ListActive[j].votes
            /\ ListActive[i].addedAt <= ListActive[j].addedAt

\* the cached list holds two candidates with equal votes added at
\* different times
C15_Witness ==
  /\ activeMoviesCache # <<>>
  /\ Len(ListActive) = 2
  /\ ListActive[1].votes = ListActive[2].votes
  /\ ListActive[1].votes > 0
  /\ ListActive[1].addedAt < ListActive[2].addedAt

\* ---------------------------------------------------------------------
\* C16  getAllWinners, served from the table or from winnersCache, returns
\* every record of the winners table, each once, ordered by wonAt
\* descending: for A listed before B, A.wonAt >= B.wonAt.
\* ---------------------------------------------------------------------
C16_WinnersListSorted ==
  /\ Len(ListWinners) = Len(winners)
  /\ \A i \in 1..Len(winners) :
       \E k \in 1..Len(ListWinners) : ListWinners[k] = winners[i]
  /\ \A i, j \in 1..Len(ListWinners) :
       i # j => ListWinners[i].id # ListWinners[j].id
  /\ \A i, j \in 1..Len(ListWinners) :
       i < j => ListWinners[i].wonAt >= ListWinners[j].wonAt

\* the cached ledger lists a later win before an earlier one
C16_Witness ==
  /\ winnersCache # <<>>
  /\ Len(ListWinners) = 2
  /\ ListWinners[1].wonAt > ListWinners[2].wonAt
  /\ ListWinners[1].id > ListWinners[2].id

\* ---------------------------------------------------------------------
\* C17  An accepted vote (POST /:id/vote, or POST / on an active id) that
\* promotes emits movie:winner, then winners:updated, and no movie:voted;
\* one that does not promote emits exactly one movie:voted carrying the
\* updated candidate, and neither movie:winner nor winners:updated.
\* ---------------------------------------------------------------------
C17_PromotionEventsInOrder ==
  (response.op \in {"vote", "add"} /\ response.status = 200) =>
    IF response.data[1].status = "winner"
    THEN /\ WinnerIn(movies, response.id)
         /\ Len(emitted) = 2
         /\ emitted[1].event = "movie:winner"
         /\ emitted[2].event = "winners:updated"
    ELSE /\ ActiveIn(movies, response.id)
         /\ emitted = << [event |-> "movie:voted",
                          payload |-> <<RowOf(movies, response.id)>>] >>
         /\ response.data[1] = RowOf(movies, response.id)

\* the vote route has just promoted a second candidate: movie:winner, then
\* winners:updated with both records
C17_Witness ==
  /\ response.op = "vote"
  /\ response.status = 200
  /\ Len(emitted) = 2
  /\ emitted[1].event = "movie:winner"
  /\ emitted[2].event = "winners:updated"
  /\ Len(emitted[2].payload) = 2

\* ---------------------------------------------------------------------
\* C18  After every accepted vote that promotes a candidate X, whatever
\* the wonAt of the earlier records, the first record of what getAllWinners
\* returns is X's record, movie:winner carries X's record (movieId X,
\* finalVotes 10), and winners:updated carries the whole ledger, X's
\* record included.
\* ---------------------------------------------------------------------
C18_PromotedIsAnnounced ==
  [][ \A id \in Ids :
        (AcceptedVote(id) /\ Len(winners') > Len(winners)) =>
          LET rec == winners'[Len(winners')]
          IN /\ rec.movieId = id
             /\ rec.finalVotes = 10
             /\ ListWinners'[1] = rec
             /\ Len(emitted') = 2
             /\ emitted'[1] = [event |-> "movie:winner", payload |-> <<rec>>]
             /\ emitted'[2] = [event |-> "winners:updated",
                               payload |-> ListWinners']
             /\ \E k \in 1..Len(ListWinners') : ListWinners'[k] = rec
             /\ Len(ListWinners') = Len(winners')
    ]_vars

\* ---------------------------------------------------------------------
\* C19  No handler emits an event kind more than once, and a request that
\* is refused (400 on a missing field, 404 on a vote or a delete, 409 on
\* the re-submission of a winner) emits nothing.
\* ---------------------------------------------------------------------
C19_AtMostOncePerKind ==
  /\ \A i, j \in 1..Len(emitted) :
       i # j => emitted[i].event # emitted[j].event
  /\ response.status \in {400, 404, 409} => emitted = <<>>

\* a submission with a missing field has just been refused while two
\* candidates are stored
C19_Witness ==
  /\ response.op = "add"
  /\ response.status = 400
  /\ emitted = <<>>
  /\ Len(movies) = 2

\* ---------------------------------------------------------------------
\* C20  Every step that changes the movies table or the winners table
\* (create, counted vote, promotion, delete, clear of either table) emits
\* at least one event to the connected clients.
\* ---------------------------------------------------------------------
C20_EveryChangeIsBroadcast ==
  [][ (movies' # movies \/ winners' # winners) => emitted' # <<>> ]_vars

\* ---------------------------------------------------------------------
\* C21  A failure of the broadcaster never fails the request: when an
\* io.emit throws, or io is null, POST / and POST /:id/vote answer what
\* they answer when every emit succeeds, and leave the same rows stored.
\* ---------------------------------------------------------------------
C21_BroadcasterNeverFailsRequest ==
  \A fail \in EmitFaults :
    /\ \A id \in Ids :
         LET h == voteHandlerF(DB, id, now, io, fail)
             ok == voteHandlerF(DB, id, now, io, "none")
         IN /\ h.resp = ok.resp
            /\ h.db.movies = ok.db.movies
            /\ h.db.winners = ok.db.winners
    /\ \A body \in Bodies :
         LET h == postMovieHandlerF(DB, body, now, io, fail)
             ok == postMovieHandlerF(DB, body, now, io, "none")
         IN /\ h.resp = ok.resp
            /\ h.db.movies = ok.db.movies
            /\ h.db.winners = ok.db.winners

\* ---------------------------------------------------------------------
\* C22  No request partially succeeds: one that is answered 500 because a
\* statement threw has changed no row of either table.  In particular a
\* promotion whose INSERT INTO winners throws does not leave the candidate
\* with status winner and no record in the ledger.
\* ---------------------------------------------------------------------
C22_FailedRequestChangesNothing ==
  [][ (response'.status = 500 /\ response'.text = "SqliteError") =>
        /\ movies' = movies
        /\ winners' = winners
        /\ \A id \in Ids :
             (WinnerIn(movies', id) /\ ~WinnerIn(movies, id)) =>
               \E i \in 1..Len(winners') : winners'[i].movieId = id
    ]_vars

\* What the three reads return is what the statements return on the tables
CacheCoherent ==
  /\ \A id \in Ids : Lookup(id) = SqlGetMovieById(movies, id)
  /\ ListActive = SqlGetAllActiveMovies(movies)
  /\ ListWinners = SqlGetAllWinners(winners)

\* ---------------------------------------------------------------------
\* C25  The caches are invalidated on the error paths too: after a request
\* that changed a row and then failed (the UPDATE of a promotion ran and
\* the INSERT INTO winners threw), getMovieById, getAllActiveMovies and
\* getAllWinners return what the tables hold.
\* ---------------------------------------------------------------------
C25_FailedRequestLeavesReadsFresh ==
  response.status = 500 => CacheCoherent

\* ---------------------------------------------------------------------
\* C23  k concurrent POST /:id/vote on an active id with count v lose no
\* vote and count none twice: the count becomes min(v + k, 10); if
\* v + k >= 10 exactly one record is appended to the ledger, for that id,
\* and every request served after the promoting one is answered 404; the
\* requests before it are answered 200; no other row changes.
\* ---------------------------------------------------------------------
C23_ConcurrentVotesAllCount ==
  \A id \in Ids, k \in 1..MaxBurst :
    ActiveIn(movies, id) =>
      LET v == RowOf(movies, id).votes
          r == VoteBurst(DB, id, now, io, k)
          total == IF v + k >= 10 THEN 10 ELSE v + k
      IN /\ Len(r.st) = k
         /\ \A j \in 1..k : r.st[j] = IF v + j <= 10 THEN 200 ELSE 404
         /\ Len(r.db.movies) = Len(movies)
         /\ \A i \in 1..Len(movies) :
              IF movies[i].id = id
              THEN r.db.movies[i] =
                     [movies[i] EXCEPT
                        !.votes = total,
                        !.status = IF total = 10 THEN "winner" ELSE "active"]
              ELSE r.db.movies[i] = movies[i]
         /\ IF v + k >= 10
            THEN /\ Appended(winners, r.db.winners)
                 /\ r.db.winners[Len(r.db.winners)].movieId = id
                 /\ r.db.winners[Len(r.db.winners)].finalVotes = 10
            ELSE r.db.winners = winners

\* two votes in a row on one candidate: the first promoted it, the second
\* has just been answered 404, and the ledger holds one record for it
C23_Witness ==
  /\ response.op = "vote"
  /\ response.status = 404
  /\ WinnerIn(movies, response.id)
  /\ Cardinality({i \in 1..Len(winners) :
                    winners[i].movieId = response.id}) = 1
  /\ Len(movieByIdCache) = 1


\* ---------------------------------------------------------------------
\* C24  Read-cache coherence: after any sequence of addMovie,
\* incrementVote (promoting or not), deleteMovie, clearAllMovies and
\* clearAllWinners calls, with reads in between, getMovieById(id),
\* getAllActiveMovies() and getAllWinners() return what the statements
\* return when run on the tables; a filled cache holds that same result.
\* ---------------------------------------------------------------------
C24_ReadsNeverStale ==
  /\ \A id \in Ids :
       /\ getMovieById(DB, id).ret = SqlGetMovieById(movies, id)
       /\ LruHas(movieByIdCache, id) =>
            movieByIdCache[LruIndex(movieByIdCache, id)].val =
              SqlGetMovieById(movies, id)
  /\ getAllActiveMovies(DB).ret = SqlGetAllActiveMovies(movies)
  /\ activeMoviesCache # <<>> =>
       activeMoviesCache[1] = SqlGetAllActiveMovies(movies)
  /\ getAllWinners(DB).ret = SqlGetAllWinners(winners)
  /\ winnersCache # <<>> => winnersCache[1] = SqlGetAllWinners(winners)

\* all three caches are filled, after votes and a promotion
C24_Witness ==
  /\ Len(movieByIdCache) = 2
  /\ activeMoviesCache # <<>> /\ activeMoviesCache[1] # <<>>
  /\ winnersCache # <<>> /\ winnersCache[1] # <<>>
  /\ \E i \in 1..Len(movies) :
       movies[i].status = "active" /\ movies[i].votes > 0


\* ---------------------------------------------------------------------
\* C26  The ledger is append-only apart from its bulk clear: a created
\* candidate (201), a vote that does not promote, a refused request, a
\* delete and the clear of the ballot leave the ledger as it was; a
\* promotion appends one record, for the promoted id, and leaves the
\* records before it as written; only clearAllWinners removes records, and
\* it removes all of them.  No step rewrites a record, whether or not the
\* candidate row it came from is still stored.
\* ---------------------------------------------------------------------
C26_LedgerAppendOnly ==
  [][/\ \/ winners' = winners
        \/ Appended(winners, winners')
        \/ response'.op = "clearWinners" /\ winners' = <<>>
     /\ response'.op \in {"delete", "clear"} => winners' = winners
     /\ (response'.op \in {"add", "vote"} /\ ~response'.isWinner) =>
          winners' = winners
     /\ (response'.op \in {"add", "vote"} /\ response'.isWinner) =>
          /\ Appended(winners, winners')
          /\ winners'[Len(winners')].movieId = response'.id]_vars

\* the ballot has just been cleared or a row deleted while the ledger
\* holds the record of a candidate whose row is no longer stored
C26_Witness ==
  /\ response.op \in {"delete", "clear"}
  /\ response.status = 200
  /\ \E i \in 1..Len(winners) : ~HasId(movies, winners[i].movieId)
  /\ Len(winners) = 2


\* ---------------------------------------------------------------------
\* C28  A POST / whose id, title, year or poster is missing or empty is
\* answered 400 before the store is touched: the tables, the sequence
\* number and the three caches (the by-id cache's recency order included)
\* are what they were, and no event is emitted; this from every reachable
\* store, whether the id is stored, cached, or neither.
\* ---------------------------------------------------------------------
C28_InvalidBodyTouchesNothing ==
  /\ \A body \in InvalidBodies, ioSet \in BOOLEAN :
       LET h == postMovieHandler(DB, body, now, ioSet)
       IN /\ h.resp.status = 400
          /\ h.db = DB
          /\ h.em = <<>>
  /\ (response.op = "add" /\ response.status = 400) => emitted = <<>>

\* a body without poster has just been refused for an id whose row, a
\* winner's, is stored and held in the by-id cache
C28_Witness ==
  /\ response.op = "add"
  /\ response.status = 400
  /\ LruHas(movieByIdCache, response.id)
  /\ WinnerIn(movies, response.id)


\* Rows of a table as a set, and ledger records without their sequence
\* number
RowSet(s) == {s[i] : i \in 1..Len(s)}

SansId(w) ==
  [movieId |-> w.movieId, title |-> w.title, year |-> w.year,
   poster |-> w.poster, finalVotes |-> w.finalVotes, wonAt |-> w.wonAt]

\* the store after request ra then request rb, both served at time now
Both(ra, rb) == Route(Route(DB, ra, now, io).db, rb, now, io).db

C27_FanOutWithoutReplay ==
  [][\A c \in Sockets :
       /\ clients' = clients =>
            delivered'[c] = IF c \in clients THEN emitted' ELSE <<>>
       /\ clients' # clients => delivered'[c] = <<>>]_vars

\* a promotion has just been served while socket 1 was connected and
\* socket 2 was not: 1 was sent movie:winner and winners:updated, 2 nothing
C27_Witness ==
  /\ clients = {1}
  /\ Len(emitted) = 2
  /\ delivered[1] = emitted
  /\ delivered[2] = <<>>
  /\ response.isWinner

\* ---------------------------------------------------------------------
\* C30  The snapshot sent for GET / ('movies:initial') goes to one socket
\* only: a request for the list makes at most one connected socket
\* receive 'movies:initial'.
\* ---------------------------------------------------------------------
C30_InitialGoesToOneClient ==
  response.op = "list" =>
    Cardinality({c \in Sockets :
                   \E i \in 1..Len(delivered[c]) :
                     delivered[c][i].event = "movies:initial"}) <= 1


\* The errors of the catalog search
TimeoutError == "OMDb API request timed out"

CredentialsErrors == {"OMDb API key is not configured", "Invalid OMDb API key"}

GenericError(u) == "OMDb API error: " \o axiosGet(u).message

\* ---------------------------------------------------------------------
\* C31  The catalog search answers every upstream outcome, and each in its
\* own way.  For a query that is not blank: a catalog that reports no
\* match gives the empty list with total 0 and no error; no reply within
\* the timeout gives the timeout error; an unset key, or a key the catalog
\* rejects (401), gives a credentials error; a reply with another error
\* status or a failed connection gives the generic upstream error.  The
\* timeout error, the credentials errors and the generic errors are
\* pairwise different, and the route answers 200, 400 or 500 in every
\* case.
\* ---------------------------------------------------------------------
C31_SearchOutcomesDistinct ==
  /\ \A q \in {x \in Queries : Trim(x) # <<>>}, u \in UpstreamOutcomes :
       LET r == searchMovies(<<"k">>, q, 1, u)
           nokey == searchMovies(<<>>, q, 1, u)
       IN /\ nokey.threw /\ nokey.message = "OMDb API key is not configured"
          /\ (u.kind = "reply" /\ u.status = 200 /\ u.Response = "False") =>
               (~r.threw /\ r.results = <<>> /\ r.totalResults = 0)
          /\ u.kind = "silent" => (r.threw /\ r.message = TimeoutError)
          /\ (u.kind = "reply" /\ u.status = 401) =>
               (r.threw /\ r.message = "Invalid OMDb API key")
          /\ (u.kind = "refused"
                \/ (u.kind = "reply" /\ u.status \notin (200..299) \cup {401})) =>
               (r.threw /\ r.message = GenericError(u))
          /\ GenericError(u) \notin CredentialsErrors \cup {TimeoutError}
  /\ TimeoutError \notin CredentialsErrors
  /\ response.op = "search" =>
       /\ response.status \in {200, 400, 500}
       /\ response.status = 200 <=> response.text = ""

\* a search for "m" has just been answered with the empty list, total 0
C31_Witness ==
  /\ response.op = "search"
  /\ response.status = 200
  /\ response.data[1].query = <<"m">>
  /\ response.data[1].results = <<>>
  /\ response.data[1].totalResults = 0


\* ---------------------------------------------------------------------
\* C32  A call invalidates the cache entries whose rows changed and no
\* other: a by-id entry that is served from the cache, and whose row the
\* call leaves as it was, is still served from the cache after the call; a
\* call that leaves the winners table as it was keeps the cached winners
\* list, and one that leaves the movies table as it was keeps the cached
\* active list.
\* ---------------------------------------------------------------------
C32_InvalidatesOnlyChangedEntries ==
  [][/\ \A b \in Ids :
          (/\ LruGet(movieByIdCache, b).val # <<>>
           /\ SqlGetMovieById(movies', b) = SqlGetMovieById(movies, b)) =>
            LruGet(movieByIdCache', b).val # <<>>
     /\ (winners' = winners /\ winnersCache # <<>>) =>
          winnersCache' = winnersCache
     /\ (movies' = movies /\ activeMoviesCache # <<>>) =>
          activeMoviesCache' = activeMoviesCache]_vars


\* ---------------------------------------------------------------------
\* C33  Two POST / for one id that is not stored, in flight together: the
\* handler runs from the lookup to the insert without yielding
\* (routes/movies.ts:33-108 has no await), so one request is served
\* wholly before the other.  The first served creates the candidate (201,
\* votes 0), the second is an implied vote (200, votes 1); neither is
\* answered 500, and one row with count 1 is stored for the id.  The two
\* bodies may differ in their other fields.
\* ---------------------------------------------------------------------
C33_ConcurrentAddsOneRow ==
  \A b1 \in Bodies \ InvalidBodies, b2 \in Bodies \ InvalidBodies :
    (b1.id = b2.id /\ ~HasId(movies, b1.id)) =>
      LET h1 == postMovieHandler(DB, b1, now, io)
          h2 == postMovieHandler(h1.db, b2, now, io)
      IN /\ h1.resp.status = 201
         /\ h1.resp.data[1].votes = 0
         /\ h2.resp.status = 200
         /\ h2.resp.data[1].votes = 1
         /\ ~h2.resp.isWinner
         /\ Cardinality({i \in 1..Len(h2.db.movies) :
                           h2.db.movies[i].id = b1.id}) = 1
         /\ RowOf(h2.db.movies, b1.id).votes = 1
         /\ RowOf(h2.db.movies, b1.id).status = "active"
         /\ RowOf(h2.db.movies, b1.id).title = b1.title
         /\ h2.db.winners = winners

\* the second of two submissions of "a" has just been counted as its
\* first vote, while "b" is not stored
C33_Witness ==
  /\ response.op = "add"
  /\ response.status = 200
  /\ response.data[1].votes = 1
  /\ Len(movies) = 1
  /\ movies[1].id = "a"
  /\ movies[1].votes = 1
  /\ winners = <<>>


\* ---------------------------------------------------------------------
\* C34  Clearing the ledger does not release past winners: after
\* clearAllWinners the list of winners is empty and every row of movies is
\* what it was, so a row with status winner keeps it; POST / on its id is
\* still answered 409 and POST /:id/vote 404, without changing a table.
\* In every state, ledger cleared or not, a winner's id is refused so.
\* ---------------------------------------------------------------------
C34_ClearedLedgerKeepsWinnersShut ==
  LET d == clearAllWinners(DB)
  IN /\ getAllWinners(d).ret = <<>>
     /\ d.movies = movies
     /\ \A id \in Ids :
          WinnerIn(movies, id) =>
            \A c \in {DB, d} :
              LET add == postMovieHandler(c, CHOOSE b \in Catalog : b.id = id,
                                          now, io)
                  vote == voteHandler(c, id, now, io)
              IN /\ add.resp.status = 409
                 /\ vote.resp.status = 404
                 /\ add.db.movies = movies /\ add.db.winners = c.winners
                 /\ vote.db.movies = movies /\ vote.db.winners = c.winners
                 /\ add.em = <<>> /\ vote.em = <<>>

\* the ledger was cleared after "b" won, and a vote for "b" has just been
\* refused: its row is a winner's and the list of winners is empty
C34_Witness ==
  /\ response.op = "vote"
  /\ response.status = 404
  /\ response.id = "b"
  /\ WinnerIn(movies, "b")
  /\ winners = <<>>
  /\ ListWinners = <<>>


C36_VotesDoNotSurviveDeletion ==
  \A id \in Ids, t \in {now, now + 1} :
    LET body == CHOOSE b \in Catalog : b.id = id
        Readded(d) ==
          \A add \in {postMovieHandler(d, body, t, io)} :
            \A nine \in {VoteBurst(add.db, id, t, io, WinThreshold - 1)} :
              \A tenth \in {voteHandler(nine.db, id, t, io)} :
                /\ add.resp.status = 201
                /\ add.resp.data[1].votes = 0
                /\ add.resp.data[1].status = "active"
                /\ add.resp.data[1].addedAt = t
                /\ SqlGetMovieById(add.db.movies, id) = add.resp.data
                /\ add.db.winners = winners
                /\ nine.st = [j \in 1..(WinThreshold - 1) |-> 200]
                /\ ActiveIn(nine.db.movies, id)
                /\ RowOf(nine.db.movies, id).votes = WinThreshold - 1
                /\ nine.db.winners = winners
                /\ tenth.resp.status = 200
                /\ tenth.resp.isWinner
                /\ WinnerIn(tenth.db.movies, id)
                /\ Appended(winners, tenth.db.winners)
    IN /\ ActiveIn(movies, id) =>
            \A del \in {deleteHandler(DB, id)} :
               /\ del.resp.status = 200
               /\ ~HasId(del.db.movies, id)
               /\ del.db.movies = SelectSeq(movies, LAMBDA r : r.id # id)
               /\ Readded(del.db)
       /\ ~HasId(movies, id) => Readded(DB)

\* "b" has just been deleted while "a", added before it, keeps its votes
C36_Witness ==
  /\ response.op = "delete"
  /\ response.status = 200
  /\ response.id = "b"
  /\ ~HasId(movies, "b")
  /\ ActiveIn(movies, "a")
  /\ RowOf(movies, "a").votes = WinThreshold - 1


\* ---------------------------------------------------------------------
\* C37  Every movie:voted notification carries an active row with a count
\* in 1..9, one more than the count the row had before the request (0 at
\* creation, else the count of the previous notification for the id), and
\* none is emitted for an id whose movie:winner notification was emitted
\* before.  The record that opens the ledger was the first element of the
\* list when it was inserted, so movie:winner carried it
\* (routes/movies.ts:63-66, 127-130).
\* ---------------------------------------------------------------------
C37_VotedNotificationsInOrder ==
  [][\A i \in 1..Len(emitted') :
       emitted'[i].event = "movie:voted" =>
         LET m == emitted'[i].payload[1]
         IN /\ m.status = "active"
            /\ m.votes \in 1..(WinThreshold - 1)
            /\ ActiveIn(movies, m.id)
            /\ RowOf(movies, m.id).votes = m.votes - 1
            /\ ~(winners # <<>> /\ winners[1].movieId = m.id)]_vars


\* ---------------------------------------------------------------------
\* C38  A tab that is connected and mounted from the empty initial state
\* and applies every event in the order of emission holds, after each
\* add, vote or promotion: a movie list without a repeated id whose ids
\* and vote counts are those of the active rows of the server, and a
\* winners list equal to what getAllWinners returns, without a repeated
\* winner.
\* ---------------------------------------------------------------------
C38_ClientViewTracksServer ==
  app.socket # <<>> =>
    /\ {<<app.movies[i].id, app.movies[i].votes>> :
          i \in 1..Len(app.movies)}
         = {<<r.id, r.votes>> :
              r \in {movies[i] : i \in {j \in 1..Len(movies) :
                                          movies[j].status = "active"}}}
    /\ \A i, j \in 1..Len(app.movies) :
         app.movies[i].id = app.movies[j].id => i = j
    /\ app.winners = ListWinners
    /\ \A i, j \in 1..Len(app.winners) :
         app.winners[i].movieId = app.winners[j].movieId => i = j


\* ---------------------------------------------------------------------
\* C39  The LRUCache never holds more than maxSize entries, nor a key
\* twice, after any sequence of get / set / delete / clear.  The entries
\* are kept in the order of their last use (a set, or a get that hit):
\* a set puts its key last with the value given, a get that hits returns
\* the stored value and puts its key last, and both leave the other
\* entries in their order; a set of a new key on a full cache drops
\* exactly one entry, the first, which is the least recently used, and no
\* other call drops a key it was not given.  A get of a key that is not
\* held (never set, deleted, cleared or evicted) returns undefined and
\* changes nothing.
\* ---------------------------------------------------------------------
C39_LruBoundedEvictsOldest ==
  [][LET c == movieByIdCache
         c1 == movieByIdCache'
         r == response'
         Rest(s) == SelectSeq(s, LAMBDA e : e.key # r.key)
         overflow == ~LruHas(c, r.key) /\ Len(c) = LruCapacity
     IN /\ Len(c1) <= LruCapacity
        /\ \A i, j \in 1..Len(c1) : c1[i].key = c1[j].key => i = j
        /\ r.op = "set" =>
             /\ c1[Len(c1)] = [key |-> r.key, val |-> r.val]
             /\ overflow => /\ r.dropped = {c[1].key}
                            /\ Rest(c1) = Tail(c)
             /\ ~overflow => /\ r.dropped = {}
                             /\ Rest(c1) = Rest(c)
        /\ r.op = "get" =>
             IF LruHas(c, r.key)
             THEN /\ r.ret = c[LruIndex(c, r.key)].val
                  /\ c1[Len(c1)] = c[LruIndex(c, r.key)]
                  /\ Rest(c1) = Rest(c)
                  /\ r.dropped = {}
             ELSE /\ r.ret = <<>>
                  /\ c1 = c
        /\ r.op = "delete" => c1 = Rest(c)
        /\ r.op = "clear" => c1 = <<>>
    ]_vars

\* a set of a new key on a full cache has just dropped one key, and the
\* key that was used after the dropped one is still held, first in line
C39_Witness ==
  /\ response.op = "set"
  /\ Cardinality(response.dropped) = 1
  /\ Len(movieByIdCache) = LruCapacity
  /\ movieByIdCache[Len(movieByIdCache)].key = response.key
  /\ movieByIdCache[1].key # response.key

====
